---- MODULE Spec2Model ----
(***************************************************************************)
(* Fair division of divisible goods: the max-min and Nash solvers of the   *)
(* fair_division library, the AllocationResult value object, the platform  *)
(* solvers (MaxMinSolver, NashSolver) and the OptimizationService of the   *)
(* migrated application.                                                   *)
(*                                                                         *)
(* Numbers.  Reals are fixed point: the integer n stands for n / ONE.      *)
(* A comparison of an integer quantity with a real tolerance c is made     *)
(* against floor(c * ONE), which is exact for integer quantities when c*ONE*)
(* is not itself an integer (x <= c  <=>  x <= floor(c), x > c <=> x >     *)
(* floor(c), x < -c <=> x < -floor(c)).                                    *)
(*                                                                         *)
(* Engines.  The LP engine (OR-Tools GLOP, scipy linprog) and the NLP      *)
(* engine (scipy SLSQP) are not part of the repository; they are modelled  *)
(* by their contract: a status and a point, the point being any point of a *)
(* finite grid that the contract allows.  For the library's max-min LP an  *)
(* OPTIMAL point carries an exact optimality certificate (LP duality), for *)
(* the Nash programme a KKT certificate, so every point the model reports  *)
(* as optimal is an optimum of the real programme.                         *)
(***************************************************************************)
EXTENDS Integers, Sequences, FiniteSets, TLC

VARIABLES op, pc, inp, solver, sol, res, report,
          arrays, np_random, calls, handles, db

vars == <<op, pc, inp, solver, sol, res, report,
          arrays, np_random, calls, handles, db>>

-----------------------------------------------------------------------------
(* Bounds of the model *)

MaxUtil == 1

MaxEnt == 2

-----------------------------------------------------------------------------
(* Index sets and the fixed-point scale *)

Agents == {0, 1}

Goods == {0, 1}

Pairs == Agents \X Goods

ONE == 432 * 10000

GridSteps == 0 .. 12

STEP == ONE \div 12

CoarseSteps == {0, 3, 6, 9, 12}

Abs(a) == IF a < 0 THEN -a ELSE a

Max2(a, b) == IF a >= b THEN a ELSE b

RECURSIVE SumOver(_, _)
SumOver(S, f) ==
    IF S = {} THEN 0
    ELSE LET e == CHOOSE e \in S : TRUE IN f[e] + SumOver(S \ {e}, f)

SetMin(S) == CHOOSE m \in S : \A n \in S : m <= n

ZeroMatrix == [p \in Pairs |-> 0]

ZeroVector == [i \in Agents |-> 0]

(* allocation.sum(axis=0)[j] *)
ColSum(x, j) == SumOver(Agents, [i \in Agents |-> x[<<i, j>>]])

(* (allocation * utilities).sum(axis=1)[i] *)
RowUtility(x, U, i) == SumOver(Goods, [j \in Goods |-> x[<<i, j>>] * U[<<i, j>>]])

RealizedUtilities(x, U) == [i \in Agents |-> RowUtility(x, U, i)]

(* a grid point (entries in twelfths) as a matrix of fixed-point numbers *)
Materialize(k) == [p \in Pairs |-> k[p] * STEP]

-----------------------------------------------------------------------------
(* AllocationResult (models.py) *)

(* np.allclose(a, b, atol): |a - b| <= atol + rtol * |b| with numpy's      *)
(* default rtol = 1e-5 and the atol = 1e-6 passed by __post_init__.        *)
AllClose(a, b) == Abs(a - b) <= (ONE + 10 * Abs(b)) \div 1000000

(* the -1e-9 of "allocation < -1e-9" in units, rounded down *)
NegTol == ONE \div 1000000000

PostInit(allocation, utilitiesLen) ==
    IF \E p \in Pairs : allocation[p] < -NegTol
        THEN "Allocation contains negative values"
    ELSE IF ~ (\A j \in Goods : AllClose(ColSum(allocation, j), ONE))
        THEN "Goods not fully allocated"
    ELSE IF utilitiesLen # Cardinality(Agents)
        THEN "Utilities shape doesn't match n_agents"
    ELSE "ok"

NoResult ==
    [allocation |-> ZeroMatrix, utilities |-> ZeroVector, utilitiesLen |-> 0,
     objective_value |-> 0, solver_status |-> "", metadata_error |-> "",
     normalized_utilities |-> ZeroVector]

NoRes == [kind |-> "none", error |-> "", msg |-> "", result |-> NoResult]

Raise(error, msg) == [kind |-> "raise", error |-> error, msg |-> msg, result |-> NoResult]

Return(r) == [kind |-> "return", error |-> "", msg |-> "", result |-> r]

(* the dataclass constructor: __init__ stores the fields, then __post_init__ *)
(* either raises ValueError or lets the object exist                        *)
AllocationResult(r) ==
    LET check == PostInit(r.allocation, r.utilitiesLen)
    IN IF check = "ok" THEN Return(r) ELSE Raise("ValueError", check)

NoSolver == [created |-> 0, calls |-> 0, live |-> FALSE]

NoSol == [status |-> "", k |-> ZeroMatrix, t |-> 0, success |-> FALSE, message |-> ""]

NoInp == [utilities |-> [ndim |-> 2, m |-> ZeroMatrix], entitlements |-> [i \in Agents |-> 1],
          epsilon |-> 0]

(* what analyze_fairness, compute_envy_matrix or check_ef1 last returned *)
NoReport == [kind |-> "none"]

Idle == pc = "idle"

(* the arrays a caller passed, as they are in the caller's memory once the  *)
(* call is over                                                             *)
NoArrays == [none |-> TRUE]

ArrayNames == {"allocation", "utilities", "entitlements"}

PassedArrays(call) == [name \in DOMAIN call \cap ArrayNames |-> call[name]]

(* numpy's global generator, the only module-level state the library       *)
(* touches: the seed it was last seeded with and the number of matrices     *)
(* drawn since.  The interpreter starts with a generator seeded by the      *)
(* operating system.                                                        *)
OsEntropy == 0

InitialRandomState == [seed |-> OsEntropy, draws |-> 0]

(* calls in flight on concurrent threads (or concurrent requests) *)
Threads == {1, 2}

NoCall == [op |-> "none", pc |-> "idle"]

NoCalls == [th \in Threads |-> NoCall]

(* engine handles (pywraplp.Solver objects) that exist *)
NoHandles == {}

-----------------------------------------------------------------------------
(* Direct construction of an AllocationResult by a caller *)

AllocValues == {-1, 0, 18, 20, ONE \div 2, ONE - 20, ONE}

ConstructResult ==
    /\ Idle
    /\ \E a \in [Pairs -> AllocValues], n \in {1, 2}, st \in {"optimal", "feasible", "infeasible"} :
         /\ op' = "AllocationResult"
         /\ inp' = [NoInp EXCEPT !.utilities = [ndim |-> 2, m |-> a]]
         /\ res' = AllocationResult([NoResult EXCEPT !.allocation = a,
                                                     !.utilitiesLen = n,
                                                     !.solver_status = st])
    /\ pc' = "done"
    /\ solver' = NoSolver
    /\ sol' = NoSol
    /\ report' = report
    /\ UNCHANGED <<arrays, np_random, calls, handles, db>>

-----------------------------------------------------------------------------
(* The LP engine.  An LP is the record the solver code builds: bounds of    *)
(* x and t, one row per agent (sum_j coefX[i,j]*x[i,j] + coefT[i]*t in      *)
(* [agentLo, +inf)), one row per good (sum_i x[i,j] in [goodLo, goodHi])    *)
(* and a budget row (sum_ij budgetCoef[i,j]*x[i,j] <= budgetHi).            *)
(* The objective is: maximize t.  Unbounded stands for "no bound".          *)

Unbounded == 100 * ONE

LPFeasible(lp, x, t) ==
    /\ \A p \in Pairs : lp.xlo[p] <= x[p] /\ x[p] <= lp.xhi[p]
    /\ t >= lp.tlo
    /\ \A i \in Agents :
         SumOver(Goods, [j \in Goods |-> lp.coefX[<<i, j>>] * x[<<i, j>>]]) + lp.coefT[i] * t
            >= lp.agentLo
    /\ \A j \in Goods : ColSum(x, j) >= lp.goodLo /\ ColSum(x, j) <= lp.goodHi
    /\ SumOver(Pairs, [p \in Pairs |-> lp.budgetCoef[p] * x[p]]) <= lp.budgetHi

(* Dual certificates of the programme max t s.t. U_i(x) >= w_i t, columns   *)
(* summing to at most one: for multipliers mu = (p/q, 1 - p/q) every        *)
(* feasible t is at most DualN / (q * w0 * w1) (weak duality; further rows  *)
(* only shrink the feasible set).  Without further rows the minimum over mu *)
(* is attained at an end point or where the two agents tie on a good, and   *)
(* equals the optimum (strong duality).                                     *)
LPWeight(lp, i) == -lp.coefT[i]

(* a variable fixed to zero by its bounds contributes nothing *)
LPCoef(lp, p) == IF lp.xhi[p] = 0 THEN 0 ELSE lp.coefX[p]

DualCandidates(lp) ==
    {<<0, 1>>, <<1, 1>>} \cup
    {<<LPCoef(lp, <<1, j>>) * LPWeight(lp, 0),
       LPCoef(lp, <<0, j>>) * LPWeight(lp, 1) + LPCoef(lp, <<1, j>>) * LPWeight(lp, 0)>> :
        j \in {g \in Goods : LPCoef(lp, <<0, g>>) + LPCoef(lp, <<1, g>>) > 0}}

DualN(lp, c) ==
    SumOver(Goods, [j \in Goods |->
        Max2(c[1] * LPCoef(lp, <<0, j>>) * LPWeight(lp, 1),
             (c[2] - c[1]) * LPCoef(lp, <<1, j>>) * LPWeight(lp, 0))])

LPWeightProduct(lp) == LPWeight(lp, 0) * LPWeight(lp, 1)

(* the programme has a point: its optimum t* is at least the lower bound of t *)
LPHasPoint(lp) ==
    \A c \in DualCandidates(lp) : DualN(lp, c) * ONE >= lp.tlo * c[2] * LPWeightProduct(lp)

(* (x, t) is feasible and meets a dual bound: an optimum of the programme *)
LPOptimal(lp, x, t) ==
    /\ LPFeasible(lp, x, t)
    /\ \E c \in DualCandidates(lp) : t * c[2] * LPWeightProduct(lp) = DualN(lp, c) * ONE

(* the largest t that x admits *)
LPBestT(lp, x) ==
    SetMin({SumOver(Goods, [j \in Goods |-> lp.coefX[<<i, j>>] * x[<<i, j>>]]) \div LPWeight(lp, i) :
            i \in Agents})

(* grid points whose columns are complete *)
CompletePoints(steps) ==
    {[p \in Pairs |-> IF p[1] = 0 THEN a[p[2]] ELSE 12 - a[p[2]]] : a \in [Goods -> steps]}

FinePoints == CompletePoints(GridSteps)

CoarsePoints == CompletePoints(CoarseSteps)

(* Solver.Solve(): OPTIMAL with an optimum, FEASIBLE with a feasible point  *)
(* (the time limit hit first), INFEASIBLE when no point exists, NOT_SOLVED  *)
(* when the time limit expired before any point was found.                  *)
LPSolve(lp) ==
    {[NoSol EXCEPT !.status = "OPTIMAL", !.k = k, !.t = LPBestT(lp, Materialize(k))] :
        k \in {g \in FinePoints :
                 LPOptimal(lp, Materialize(g), LPBestT(lp, Materialize(g)))}}
    \cup
    {[NoSol EXCEPT !.status = "FEASIBLE", !.k = kt[1], !.t = kt[2]] :
        kt \in {g \in CoarsePoints \X {lp.tlo, lp.tlo + 1} :
                 LPFeasible(lp, Materialize(g[1]), g[2])}}
    \cup
    {[NoSol EXCEPT !.status = "FEASIBLE", !.k = k, !.t = LPBestT(lp, Materialize(k))] :
        k \in {g \in CoarsePoints :
                 LPFeasible(lp, Materialize(g), LPBestT(lp, Materialize(g)))}}
    \cup
    (IF LPHasPoint(lp) THEN {} ELSE {[NoSol EXCEPT !.status = "INFEASIBLE"]})
    \cup
    {[NoSol EXCEPT !.status = "NOT_SOLVED"]}

-----------------------------------------------------------------------------
(* solve_maxmin_allocation (fair_division/maxmin_solver.py) *)

UtilValues == -1 .. MaxUtil

EntValues == 0 .. MaxEnt

EpsValues == {0, ONE \div 1000000}

UtilitiesInputs ==
    {[ndim |-> 2, m |-> m] : m \in [Pairs -> UtilValues]} \cup {[ndim |-> 1, m |-> ZeroMatrix]}

EntitlementsInputs == [Agents -> EntValues] \cup [{0} -> EntValues]

(* the validation without its last check, epsilon <= 0 *)
MaxMinValidateInputsNoEpsilon(utilities, entitlements, epsilon) ==
    IF utilities.ndim # 2
        THEN "utilities must be 2D"
    ELSE IF DOMAIN entitlements # Agents
        THEN "entitlements shape doesn't match n_agents"
    ELSE IF \E p \in Pairs : utilities.m[p] < 0
        THEN "Utilities must be non-negative"
    ELSE IF \E i \in Agents : entitlements[i] <= 0
        THEN "Entitlements must be strictly positive"
    ELSE "ok"

MaxMinValidateInputs(utilities, entitlements, epsilon) ==
    IF utilities.ndim # 2
        THEN "utilities must be 2D"
    ELSE IF DOMAIN entitlements # Agents
        THEN "entitlements shape doesn't match n_agents"
    ELSE IF \E p \in Pairs : utilities.m[p] < 0
        THEN "Utilities must be non-negative"
    ELSE IF \E i \in Agents : entitlements[i] <= 0
        THEN "Entitlements must be strictly positive"
    ELSE IF epsilon <= 0
        THEN "epsilon must be positive"
    ELSE "ok"

(* the agent rows with coefficient -1 for t in place of -entitlements[i] *)
MaxMinLPUnweighted(utilities, entitlements, epsilon) ==
    [xlo |-> [p \in Pairs |-> 0], xhi |-> [p \in Pairs |-> ONE], tlo |-> epsilon,
     coefX |-> utilities.m, coefT |-> [i \in Agents |-> -1],
     agentLo |-> 0, goodLo |-> ONE, goodHi |-> ONE,
     budgetCoef |-> ZeroMatrix, budgetHi |-> 0]

(* x[i,j] = NumVar(0.0, 1.0), t = NumVar(epsilon, infinity), the agent rows *)
(* Constraint(0.0, infinity) with coefficients utilities[i,j] and           *)
(* -entitlements[i], the good rows Constraint(1.0, 1.0)                     *)
MaxMinLP(utilities, entitlements, epsilon) ==
    [xlo |-> [p \in Pairs |-> 0], xhi |-> [p \in Pairs |-> ONE], tlo |-> epsilon,
     coefX |-> utilities.m, coefT |-> [i \in Agents |-> -entitlements[i]],
     agentLo |-> 0, goodLo |-> ONE, goodHi |-> ONE,
     budgetCoef |-> ZeroMatrix, budgetHi |-> 0]

CallMaxMin ==
    /\ Idle
    /\ \E u \in UtilitiesInputs, w \in EntitlementsInputs, e \in EpsValues :
         /\ inp' = [utilities |-> u, entitlements |-> w, epsilon |-> e]
         /\ arrays' = [utilities |-> u, entitlements |-> w]
    /\ op' = "solve_maxmin_allocation"
    /\ pc' = "validate"
    /\ solver' = NoSolver
    /\ sol' = NoSol
    /\ res' = NoRes
    /\ report' = report
    /\ UNCHANGED <<np_random, calls, handles, db>>

MaxMinValidate ==
    /\ op = "solve_maxmin_allocation" /\ pc = "validate"
    /\ LET v == MaxMinValidateInputs(inp.utilities, inp.entitlements, inp.epsilon)
       IN IF v # "ok"
            THEN /\ res' = Raise("ValueError", v)
                 /\ pc' = "done"
            ELSE /\ res' = res
                 /\ pc' = "create_solver"
    /\ UNCHANGED <<op, inp, solver, sol>>
    /\ report' = report
    /\ UNCHANGED <<arrays, np_random, calls, handles, db>>

MaxMinCreateSolver ==
    /\ op = "solve_maxmin_allocation" /\ pc = "create_solver"
    /\ \E created \in BOOLEAN :
         IF created
            THEN /\ solver' = [created |-> 1, calls |-> 0, live |-> TRUE]
                 /\ pc' = "solve"
                 /\ res' = res
            ELSE /\ solver' = solver
                 /\ pc' = "done"
                 /\ res' = Raise("RuntimeError", "Could not create OR-Tools solver")
    /\ UNCHANGED <<op, inp, sol>>
    /\ report' = report
    /\ UNCHANGED <<arrays, np_random, calls, handles, db>>

MaxMinSolve ==
    /\ op = "solve_maxmin_allocation" /\ pc = "solve"
    /\ sol' \in LPSolve(MaxMinLP(inp.utilities, inp.entitlements, inp.epsilon))
    /\ solver' = [solver EXCEPT !.calls = @ + 1]
    /\ pc' = "extract"
    /\ UNCHANGED <<op, inp, res>>
    /\ report' = report
    /\ UNCHANGED <<arrays, np_random, calls, handles, db>>

(* the result with every returned point labelled optimal *)
MaxMinResultAlwaysOptimal(utilities, entitlements, s) ==
    IF s.status \notin {"OPTIMAL", "FEASIBLE"}
        THEN AllocationResult([NoResult EXCEPT
                 !.allocation = ZeroMatrix,
                 !.utilities = ZeroVector,
                 !.utilitiesLen = Cardinality(Agents),
                 !.objective_value = 0,
                 !.solver_status = "infeasible",
                 !.metadata_error = "No feasible solution found"])
        ELSE LET allocation == Materialize(s.k)
                 realized_utilities == RealizedUtilities(allocation, utilities.m)
             IN AllocationResult([NoResult EXCEPT
                 !.allocation = allocation,
                 !.utilities = realized_utilities,
                 !.utilitiesLen = Cardinality(Agents),
                 !.objective_value = s.t,
                 !.solver_status = "optimal",
                 !.normalized_utilities =
                     [i \in Agents |-> realized_utilities[i] \div entitlements[i]]])

(* the status mapping and the extraction of the solution *)
MaxMinResult(utilities, entitlements, s) ==
    IF s.status \notin {"OPTIMAL", "FEASIBLE"}
        THEN AllocationResult([NoResult EXCEPT
                 !.allocation = ZeroMatrix,
                 !.utilities = ZeroVector,
                 !.utilitiesLen = Cardinality(Agents),
                 !.objective_value = 0,
                 !.solver_status = "infeasible",
                 !.metadata_error = "No feasible solution found"])
        ELSE LET allocation == Materialize(s.k)
                 realized_utilities == RealizedUtilities(allocation, utilities.m)
             IN AllocationResult([NoResult EXCEPT
                 !.allocation = allocation,
                 !.utilities = realized_utilities,
                 !.utilitiesLen = Cardinality(Agents),
                 !.objective_value = s.t,
                 !.solver_status = IF s.status = "OPTIMAL" THEN "optimal" ELSE "feasible",
                 !.normalized_utilities =
                     [i \in Agents |-> realized_utilities[i] \div entitlements[i]]])

(* the handle is the local name solver of the call's frame and nothing in  *)
(* the function releases it: it goes when the frame goes.  A return ends    *)
(* the frame; an exception carries a traceback that refers to the frame, so *)
(* the frame and the handle stay until the caller has let the exception go  *)
FrameKept(outcome) == outcome.kind = "raise"

MaxMinExtract ==
    /\ op = "solve_maxmin_allocation" /\ pc = "extract"
    /\ res' = MaxMinResult(inp.utilities, inp.entitlements, sol)
    /\ solver' = [solver EXCEPT !.live = FrameKept(res')]
    /\ pc' = "done"
    /\ UNCHANGED <<op, inp, sol>>
    /\ report' = report
    /\ UNCHANGED <<arrays, np_random, calls, handles, db>>

-----------------------------------------------------------------------------
(* solve_nash_allocation (fair_division/nash_solver.py) *)

NashValidateInputs(utilities, entitlements, epsilon) ==
    IF utilities.ndim # 2
        THEN "utilities must be 2D"
    ELSE IF DOMAIN entitlements # Agents
        THEN "entitlements shape doesn't match n_agents"
    ELSE IF \E p \in Pairs : utilities.m[p] < 0
        THEN "Utilities must be non-negative"
    ELSE IF \E i \in Agents : entitlements[i] <= 0
        THEN "Entitlements must be strictly positive"
    ELSE IF epsilon <= 0
        THEN "epsilon must be positive"
    ELSE "ok"

(* The programme handed to minimize(): bounds 0 <= x <= 1, the linear       *)
(* constraint A_eq x = 1 (columns), the nonlinear constraint U_i >= epsilon *)
NashFeasible(U, epsilon, x) ==
    /\ \A p \in Pairs : 0 <= x[p] /\ x[p] <= ONE
    /\ \A j \in Goods : ColSum(x, j) = ONE
    /\ \A i \in Agents : RowUtility(x, U, i) >= epsilon

(* the optimality condition with the weights of the two agents exchanged *)
NashKKTSwappedWeights(U, w, x) ==
    /\ \A i \in Agents : RowUtility(x, U, i) > 0
    /\ \A j \in Goods : \A i \in Agents : \A k \in Agents :
         x[<<i, j>>] > 0 =>
            w[k] * U[<<i, j>>] * (RowUtility(x, U, k) \div STEP)
               >= w[i] * U[<<k, j>>] * (RowUtility(x, U, i) \div STEP)

(* First-order optimality of sum_i w_i log U_i over complete columns: a     *)
(* good is held only by agents whose marginal weighted log-utility for it   *)
(* is the largest.  The objective is concave, so this is sufficient.        *)
NashKKT(U, w, x) ==
    /\ \A i \in Agents : RowUtility(x, U, i) > 0
    /\ \A j \in Goods : \A i \in Agents : \A k \in Agents :
         x[<<i, j>>] > 0 =>
            w[i] * U[<<i, j>>] * (RowUtility(x, U, k) \div STEP)
               >= w[k] * U[<<k, j>>] * (RowUtility(x, U, i) \div STEP)

(* objective(x): -sum_i weights[i] * log(max(U_i, epsilon)).  The sum of    *)
(* logarithms is kept as the vector of its arguments.                       *)
NashObjective(U, epsilon, x) ==
    [i \in Agents |-> Max2(RowUtility(x, U, i), epsilon)]

(* minimize(method="SLSQP"): success with an optimum, or failure (iteration *)
(* limit, incompatible constraints) with the last iterate, which need not   *)
(* satisfy any constraint.                                                  *)
NashMinimize(U, w, epsilon) ==
    {[NoSol EXCEPT !.success = TRUE, !.k = k,
                   !.message = "Optimization terminated successfully"] :
        k \in {g \in FinePoints :
                 NashFeasible(U, epsilon, Materialize(g)) /\ NashKKT(U, w, Materialize(g))}}
    \cup
    {[NoSol EXCEPT !.success = FALSE, !.k = k, !.message = "Iteration limit reached"] :
        k \in CoarsePoints \cup {ZeroMatrix}}

CallNash ==
    /\ Idle
    /\ \E u \in UtilitiesInputs, w \in EntitlementsInputs, e \in EpsValues :
         /\ inp' = [utilities |-> u, entitlements |-> w, epsilon |-> e]
         /\ arrays' = [utilities |-> u, entitlements |-> w]
    /\ op' = "solve_nash_allocation"
    /\ pc' = "validate"
    /\ solver' = NoSolver
    /\ sol' = NoSol
    /\ res' = NoRes
    /\ report' = report
    /\ UNCHANGED <<np_random, calls, handles, db>>

NashValidate ==
    /\ op = "solve_nash_allocation" /\ pc = "validate"
    /\ LET v == NashValidateInputs(inp.utilities, inp.entitlements, inp.epsilon)
       IN IF v # "ok"
            THEN /\ res' = Raise("ValueError", v)
                 /\ pc' = "done"
            ELSE /\ res' = res
                 /\ pc' = "solve"
    /\ UNCHANGED <<op, inp, solver, sol>>
    /\ report' = report
    /\ UNCHANGED <<arrays, np_random, calls, handles, db>>

NashSolve ==
    /\ op = "solve_nash_allocation" /\ pc = "solve"
    /\ sol' \in NashMinimize(inp.utilities.m, inp.entitlements, inp.epsilon)
    /\ solver' = [solver EXCEPT !.calls = @ + 1]
    /\ pc' = "extract"
    /\ UNCHANGED <<op, inp, res>>
    /\ report' = report
    /\ UNCHANGED <<arrays, np_random, calls, handles, db>>

NashResult(utilities, entitlements, epsilon, s) ==
    LET x_opt == Materialize(s.k)
        agent_utilities == RealizedUtilities(x_opt, utilities.m)
    IN AllocationResult([NoResult EXCEPT
         !.allocation = x_opt,
         !.utilities = agent_utilities,
         !.utilitiesLen = Cardinality(Agents),
         !.objective_value = NashObjective(utilities.m, epsilon, x_opt),
         !.solver_status = IF s.success THEN "optimal" ELSE "feasible"])

NashExtract ==
    /\ op = "solve_nash_allocation" /\ pc = "extract"
    /\ res' = NashResult(inp.utilities, inp.entitlements, inp.epsilon, sol)
    /\ pc' = "done"
    /\ UNCHANGED <<op, inp, solver, sol>>
    /\ report' = report
    /\ UNCHANGED <<arrays, np_random, calls, handles, db>>

-----------------------------------------------------------------------------
(* MaxMinSolver and NashSolver (crea-oss-platform, app/algorithms) *)

(* restrictions: (agent, good) -> allowed; a pair without an entry is allowed *)
RestrictionInputs ==
    {[p \in Pairs |-> TRUE]} \cup
    {[p \in Pairs |-> p # q] : q \in Pairs} \cup
    {[p \in Pairs |-> p[2] # 0]}

GoodValuesInputs == {[j \in Goods |-> 1]}

BudgetInputs == {ONE, 2 * ONE}

PlatformInputs ==
    [utilities : [Pairs -> 0 .. MaxUtil], entitlements : [Agents -> 1 .. MaxEnt],
     good_values : GoodValuesInputs, budget : BudgetInputs, restrictions : RestrictionInputs]

(* grid points (entries in quarters) whose columns sum to at most one *)
PlatformPoints ==
    {k \in [Pairs -> CoarseSteps] : \A j \in Goods : k[<<0, j>>] + k[<<1, j>>] <= 12}

(* c[-1] = -1 (maximize t); the agent rows -sum_j u[i,j]*x[i,j] + t <= 0,   *)
(* written here as sum_j u[i,j]*x[i,j] - t >= 0; the good rows              *)
(* sum_i x[i,j] <= 1; the budget row; bounds (0, None) for every variable,  *)
(* (0, 0) for a pair that is not allowed                                    *)
PlatformMaxMinLP(i) ==
    [xlo |-> [p \in Pairs |-> 0],
     xhi |-> [p \in Pairs |-> IF i.restrictions[p] THEN Unbounded ELSE 0],
     tlo |-> 0,
     coefX |-> i.utilities, coefT |-> [a \in Agents |-> -1],
     agentLo |-> 0, goodLo |-> -Unbounded, goodHi |-> ONE,
     budgetCoef |-> [p \in Pairs |-> i.good_values[p[2]]], budgetHi |-> i.budget]

(* linprog(method='highs'): success with an optimum, failure when the       *)
(* programme has no point                                                   *)
PlatformLinprog(lp) ==
    {[NoSol EXCEPT !.success = TRUE, !.k = k, !.t = LPBestT(lp, Materialize(k)),
                   !.message = "Optimization terminated successfully."] :
        k \in {g \in PlatformPoints :
                 LPOptimal(lp, Materialize(g), LPBestT(lp, Materialize(g)))}}
    \cup
    (IF LPHasPoint(lp) THEN {}
     ELSE {[NoSol EXCEPT !.success = FALSE, !.message = "The problem is infeasible."]})

(* allocations[(agent_id, good_id)] = amount for amount > 1e-6; a pair      *)
(* without an entry holds nothing                                           *)
FilterNearZero(x) == [p \in Pairs |-> IF x[p] > ONE \div 1000000 THEN x[p] ELSE 0]

PlatformMaxMinResult(s) ==
    IF ~s.success
        THEN Raise("ValueError", "Optimization failed")
        ELSE Return([NoResult EXCEPT
                 !.allocation = FilterNearZero(Materialize(s.k)),
                 !.objective_value = s.t])

PlatformMaxMinSolve ==
    /\ Idle
    /\ \E i \in PlatformInputs :
         /\ inp' = i
         /\ \E s \in PlatformLinprog(PlatformMaxMinLP(i)) :
              /\ sol' = s
              /\ res' = PlatformMaxMinResult(s)
    /\ op' = "MaxMinSolver.solve"
    /\ pc' = "done"
    /\ solver' = [NoSolver EXCEPT !.calls = 1]
    /\ report' = report
    /\ UNCHANGED <<arrays, np_random, calls, handles, db>>

(* bounds (0, None), (0, 0) for a pair that is not allowed; the 'ineq'      *)
(* constraints 1 - sum_i x[i,j] >= 0 and budget - sum_ij x[i,j]*v[j] >= 0   *)
PlatformNashFeasible(i, x) ==
    /\ \A p \in Pairs : x[p] >= 0 /\ (~i.restrictions[p] => x[p] = 0)
    /\ \A j \in Goods : ColSum(x, j) <= ONE
    /\ SumOver(Pairs, [p \in Pairs |-> i.good_values[p[2]] * x[p]]) <= i.budget

(* w_i*u[i,j]/(U_i + 1e-8) >= w_k*u[k,j]/(U_k + 1e-8), the 1e-8 of          *)
(* _objective being smaller than any difference of two grid utilities      *)
PlatformMarginalGE(i, x, a, b, j) ==
    LET wa == i.entitlements[a] * i.utilities[<<a, j>>]
        wb == i.entitlements[b] * i.utilities[<<b, j>>]
        d == wa * (RowUtility(x, i.utilities, b) \div STEP)
               - wb * (RowUtility(x, i.utilities, a) \div STEP)
    IN d > 0 \/ (d = 0 /\ wa >= wb)

(* first-order optimality of sum_i w_i log(U_i + 1e-8) under the bounds and *)
(* the good rows: a good is held only by allowed agents of largest marginal, *)
(* and is left over only when no allowed agent values it                    *)
PlatformNashKKT(i, x) ==
    \A j \in Goods :
        /\ \A a \in Agents : \A b \in Agents :
             (x[<<a, j>>] > 0 /\ i.restrictions[<<b, j>>]) => PlatformMarginalGE(i, x, a, b, j)
        /\ ColSum(x, j) < ONE =>
             \A b \in Agents : i.restrictions[<<b, j>>] => i.utilities[<<b, j>>] = 0

(* minimize(method='SLSQP', options={'maxiter': 1000}): success with an     *)
(* optimum, or failure with the last iterate, which respects the bounds     *)
PlatformNashMinimize(i) ==
    {[NoSol EXCEPT !.success = TRUE, !.k = k,
                   !.message = "Optimization terminated successfully"] :
        k \in {g \in PlatformPoints :
                 PlatformNashFeasible(i, Materialize(g)) /\ PlatformNashKKT(i, Materialize(g))}}
    \cup
    {[NoSol EXCEPT !.success = FALSE, !.k = k, !.message = "Iteration limit reached"] :
        k \in {g \in CoarsePoints \cup {ZeroMatrix} :
                 \A p \in Pairs : ~i.restrictions[p] => g[p] = 0}}

(* the 'not result.success' branch only logs a warning; nash_value =        *)
(* exp(-result.fun) is kept as the vector of utilities it is the product of *)
PlatformNashResult(i, s) ==
    Return([NoResult EXCEPT
        !.allocation = FilterNearZero(Materialize(s.k)),
        !.objective_value = RealizedUtilities(Materialize(s.k), i.utilities)])

PlatformNashSolve ==
    /\ Idle
    /\ \E i \in PlatformInputs :
         /\ inp' = i
         /\ \E s \in PlatformNashMinimize(i) :
              /\ sol' = s
              /\ res' = PlatformNashResult(i, s)
    /\ op' = "NashSolver.solve"
    /\ pc' = "done"
    /\ solver' = [NoSolver EXCEPT !.calls = 1]
    /\ report' = report
    /\ UNCHANGED <<arrays, np_random, calls, handles, db>>

-----------------------------------------------------------------------------
(* OptimizationService._solve_bids and _solve_ratings (migrated-app,        *)
(* app/services/optimizer.py) with the Dispute, Agent, Good, Bid, Rate and  *)
(* RestrictedAssignment rows they read.  Goods are divisible.               *)

(* a share of entitlement of 0.0004 *)
TinyShare == ONE \div 2500

(* Agent.share_of_entitlement of the two agents; 0 is the column default *)
ShareInputs ==
    {[a \in Agents |-> 0],
     [a \in Agents |-> IF a = 0 THEN ONE - TinyShare ELSE TinyShare],
     [a \in Agents |-> IF a = 0 THEN ONE \div 2 ELSE 0]}

(* RestrictedAssignment rows: share_of_entitlement of the row of a pair, -1 *)
(* for a pair without a row                                                 *)
RestrictedInputs ==
    {[p \in Pairs |-> -1]} \cup
    {[p \in Pairs |-> IF p = q THEN c ELSE -1] : q \in Pairs, c \in {0, ONE \div 2}}

(* Rate.rate_value of the Rate row of a pair, 0 for a pair without a row *)
RateValues == {0, 3, 4}

BidsDisputes ==
    [resolution_method : {"bids"}, shares : ShareInputs,
     estimated_value : {[j \in Goods |-> 1]},
     bids : [Pairs -> 0 .. MaxUtil], rates : {[p \in Pairs |-> 0]},
     restricted : RestrictedInputs, bounds_quarters : {0, 1}, rating_weight : {2}]

RatingsDisputes ==
    [resolution_method : {"ratings"}, shares : {[a \in Agents |-> 0]},
     estimated_value : {[j \in Goods |-> 1]},
     bids : {[p \in Pairs |-> 0]}, rates : [Pairs -> RateValues],
     restricted : RestrictedInputs, bounds_quarters : {1}, rating_weight : {2}]

(* Dispute.agents_share_of_entitlement *)
AgentsShareOfEntitlement(shares) ==
    LET total_custom_share == SumOver(Agents, [a \in Agents |-> IF shares[a] > 0 THEN shares[a] ELSE 0])
        num_agents_without_custom == Cardinality({a \in Agents : shares[a] = 0})
        remaining_share == ONE - total_custom_share
    IN IF remaining_share >= 0 /\ num_agents_without_custom > 0
         THEN remaining_share \div num_agents_without_custom
         ELSE 0

RECURSIVE Pow(_, _)
Pow(b, e) == IF e = 0 THEN 1 ELSE b * Pow(b, e - 1)

(* Rate.calculate_utility: math.pow(rating_weight, rate_value - 3) * value, *)
(* for the rates of the model (3 and above)                                 *)
RateCalculateUtility(rate_value, good_estimated_value, rating_weight) ==
    Pow(rating_weight, rate_value - 3) * good_estimated_value

(* utilities[agent_idx, good_idx] for the pairs that have a Rate row; the   *)
(* objective and utilities.get((i, j), 0) read 0 elsewhere                  *)
RatingUtilities(d) ==
    [p \in Pairs |-> IF d.rates[p] = 0 THEN 0
                     ELSE RateCalculateUtility(d.rates[p], d.estimated_value[p[2]], d.rating_weight)]

(* The programme of _solve_bids: x in [0, 1], at most the share of a        *)
(* restricted pair; columns summing to one; per agent                       *)
(* 0 <= sum_j value[j]*x[i,j] <= total_value * share * (1 + bounds)         *)
BidsMaxValue(d, a) ==
    LET total_value == SumOver(Goods, d.estimated_value)
        share == IF d.shares[a] > 0 THEN d.shares[a] ELSE AgentsShareOfEntitlement(d.shares)
    IN (total_value * share * (4 + d.bounds_quarters)) \div 4

BidsUpper(d, p) == IF d.restricted[p] >= 0 THEN d.restricted[p] ELSE ONE

BidsFeasible(d, x) ==
    /\ \A p \in Pairs : 0 <= x[p] /\ x[p] <= BidsUpper(d, p)
    /\ \A j \in Goods : ColSum(x, j) = ONE
    /\ \A a \in Agents :
         SumOver(Goods, [j \in Goods |-> d.estimated_value[j] * x[<<a, j>>]]) <= BidsMaxValue(d, a)

(* The programme of _solve_ratings: x in [0, 1], columns summing to one *)
RatingsFeasible(d, x) ==
    /\ \A p \in Pairs : 0 <= x[p] /\ x[p] <= ONE
    /\ \A j \in Goods : ColSum(x, j) = ONE

(* objective: sum_ij c[i,j] * x[i,j], maximized *)
LinearObjective(c, x) == SumOver(Pairs, [p \in Pairs |-> c[p] * x[p]])

(* no point with complete columns has a larger objective than this *)
LinearBound(c) ==
    SumOver(Goods, [j \in Goods |-> Max2(c[<<0, j>>], c[<<1, j>>]) * ONE])

(* points with complete columns: shares of 0, 0.0004, 0.0008, one half and  *)
(* their complements                                                        *)
MigratedSteps ==
    {0, TinyShare, 2 * TinyShare, ONE \div 2, ONE - 2 * TinyShare, ONE - TinyShare, ONE}

MigratedPoints ==
    {[p \in Pairs |-> IF p[1] = 0 THEN a[p[2]] ELSE ONE - a[p[2]]] : a \in [Goods -> MigratedSteps]}

(* solver.Solve() of GLOP: OPTIMAL with a feasible point that meets the     *)
(* bound; INFEASIBLE (all solution values 0) when the upper bounds of a     *)
(* column or the budgets cannot cover the goods                             *)
BidsSolve(d) ==
    {[NoSol EXCEPT !.status = "OPTIMAL", !.k = x] :
        x \in {g \in MigratedPoints :
                 BidsFeasible(d, g) /\ LinearObjective(d.bids, g) = LinearBound(d.bids)}}
    \cup
    (IF \/ \E j \in Goods : BidsUpper(d, <<0, j>>) + BidsUpper(d, <<1, j>>) < ONE
        \/ SumOver(Agents, [a \in Agents |-> BidsMaxValue(d, a)])
             < SumOver(Goods, d.estimated_value) * ONE
       THEN {[NoSol EXCEPT !.status = "INFEASIBLE"]}
       ELSE {})

RatingsSolve(d) ==
    {[NoSol EXCEPT !.status = "OPTIMAL", !.k = x] :
        x \in {g \in MigratedPoints :
                 RatingsFeasible(d, g)
                 /\ LinearObjective(RatingUtilities(d), g) = LinearBound(RatingUtilities(d))}}

(* Decimal(str(utility)): the shortest decimal that reads back as the float, *)
(* the same number at the resolution of the model                           *)
DecimalOfStr(v) == v

(* the extraction loop: an AllocationItem and a term of total_utility for   *)
(* every pair with allocation_value > 0.001                                 *)
Included(x, p) == x[p] > ONE \div 1000

ExtractSolution(c, s) ==
    Return([NoResult EXCEPT
        !.allocation = [p \in Pairs |-> IF Included(s.k, p) THEN s.k[p] ELSE 0],
        !.utilities = [a \in Agents |->
            SumOver(Goods, [j \in Goods |->
                IF Included(s.k, <<a, j>>) THEN DecimalOfStr(c[<<a, j>>] * s.k[<<a, j>>]) ELSE 0])],
        !.utilitiesLen = Cardinality(Agents),
        !.objective_value = SumOver(Pairs, [p \in Pairs |->
            IF Included(s.k, p) THEN DecimalOfStr(c[p] * s.k[p]) ELSE 0]),
        !.solver_status = IF s.status = "OPTIMAL" THEN "OPTIMAL" ELSE "INFEASIBLE"])

SolveBids ==
    /\ Idle
    /\ \E d \in BidsDisputes :
         /\ inp' = d
         /\ \E s \in BidsSolve(d) :
              /\ sol' = s
              /\ res' = ExtractSolution(d.bids, s)
    /\ op' = "_solve_bids"
    /\ pc' = "done"
    /\ solver' = [created |-> 1, calls |-> 1, live |-> FALSE]
    /\ report' = report
    /\ UNCHANGED <<arrays, np_random, calls, handles, db>>

SolveRatings ==
    /\ Idle
    /\ \E d \in RatingsDisputes :
         /\ inp' = d
         /\ \E s \in RatingsSolve(d) :
              /\ sol' = s
              /\ res' = ExtractSolution(RatingUtilities(d), s)
    /\ op' = "_solve_ratings"
    /\ pc' = "done"
    /\ solver' = [created |-> 1, calls |-> 1, live |-> FALSE]
    /\ report' = report
    /\ UNCHANGED <<arrays, np_random, calls, handles, db>>

(* Agent.share_of_entitlement as the schema admits it: 0 <= share <= 1 *)
ShareValues == {0, TinyShare, ONE \div 4, ONE \div 2, ONE}

(* the fill of the entitlements by the loader: an agent with a share > 0    *)
(* keeps it, any other agent gets Dispute.agents_share_of_entitlement       *)
FilledEntitlements(shares) ==
    [a \in Agents |-> IF shares[a] > 0 THEN shares[a] ELSE AgentsShareOfEntitlement(shares)]

LoadDisputeData ==
    /\ Idle
    /\ \E shares \in [Agents -> ShareValues] :
         /\ inp' = [shares |-> shares]
         /\ report' = [kind |-> "entitlements", entitlements |-> FilledEntitlements(shares)]
    /\ op' = "_load_dispute_data"
    /\ pc' = "done"
    /\ UNCHANGED <<solver, sol, res>>
    /\ UNCHANGED <<arrays, np_random, calls, handles, db>>

-----------------------------------------------------------------------------
(* analyze_fairness, compute_envy_matrix and check_ef1                      *)
(* (fair_division/diagnostics.py).  Utilities are whole numbers, allocation *)
(* entries, realized utilities, envy and tolerance are in units of 1/ONE.   *)

(* np.allclose(a, b, atol=atol): |a - b| <= atol + rtol*|b|, rtol = 1e-5 *)
AllCloseAtol(a, b, atol) == Abs(a - b) <= atol + (10 * Abs(b)) \div 1000000

SetMax(S) == CHOOSE m \in S : \A v \in S : v <= m

(* (utilities[i, :] * bundle_k).sum() *)
UtilityForBundle(allocation, utilities, i, k) ==
    SumOver(Goods, [j \in Goods |-> utilities[<<i, j>>] * allocation[<<k, j>>]])

(* the pairs (i, k) in the order of the two nested loops *)
LoopPairs ==
    LET n == Cardinality(Agents)
    IN [m \in 1 .. n * n |-> <<(m - 1) \div n, (m - 1) % n>>]

(* the innermost condition without the test that agent k values good j *)
ParetoImprovableUnvalued(allocation, utilities, tolerance, j, i, k) ==
    /\ k # i
    /\ allocation[<<k, j>>] < ONE - tolerance

(* the innermost condition: agent k values good j and does not hold all of it *)
ParetoImprovable(allocation, utilities, tolerance, j, i, k) ==
    /\ k # i
    /\ utilities[<<k, j>>] * ONE > tolerance
    /\ allocation[<<k, j>>] < ONE - tolerance

(* _check_pareto_efficiency_heuristic *)
ParetoInefficientAt(allocation, utilities, tolerance, j, i) ==
    /\ allocation[<<i, j>>] > tolerance
    /\ utilities[<<i, j>>] * ONE < tolerance
    /\ \E k \in Agents : ParetoImprovable(allocation, utilities, tolerance, j, i, k)

(* the loops run j, then i, then k in increasing order and return at the   *)
(* first hit; the note carries j, i and k                                   *)
CheckParetoEfficiencyHeuristic(allocation, utilities, tolerance) ==
    IF \E j \in Goods : ~AllCloseAtol(ColSum(allocation, j), ONE, tolerance)
        THEN [ok |-> FALSE, note |-> <<"Goods not fully allocated">>]
    ELSE IF \E j \in Goods : \E i \in Agents :
                ParetoInefficientAt(allocation, utilities, tolerance, j, i)
        THEN LET j == SetMin({g \in Goods : \E a \in Agents :
                        ParetoInefficientAt(allocation, utilities, tolerance, g, a)})
                 i == SetMin({a \in Agents :
                        ParetoInefficientAt(allocation, utilities, tolerance, j, a)})
                 k == SetMin({a \in Agents :
                        ParetoImprovable(allocation, utilities, tolerance, j, i, a)})
             IN [ok |-> FALSE, note |-> <<"allocated inefficiently", j, i, k>>]
    ELSE [ok |-> TRUE, note |-> <<"No obvious inefficiency detected (heuristic check)">>]

(* envy = utility_i_for_k - realized_utilities[i] *)
RawEnvy(allocation, utilities, i, k) ==
    UtilityForBundle(allocation, utilities, i, k) - RowUtility(allocation, utilities, i)

(* envious_pairs.sort(key=lambda x: x[2], reverse=True): a stable sort, so  *)
(* triples of equal envy keep the order in which they were appended         *)
RECURSIVE InsertDescending(_, _)
InsertDescending(sorted, triple) ==
    IF sorted = <<>> THEN <<triple>>
    ELSE IF Head(sorted)[3] >= triple[3]
        THEN <<Head(sorted)>> \o InsertDescending(Tail(sorted), triple)
    ELSE <<triple>> \o sorted

RECURSIVE SortDescending(_)
SortDescending(seq) ==
    IF seq = <<>> THEN <<>>
    ELSE InsertDescending(SortDescending(SubSeq(seq, 1, Len(seq) - 1)), seq[Len(seq)])

(* _analyze_envy listing every pair of positive envy, tolerance or not *)
AnalyzeEnvyAnyPositive(allocation, utilities, tolerance) ==
    LET envy_matrix == [q \in Agents \X Agents |->
                          IF q[1] = q[2] THEN 0
                          ELSE Max2(0, RawEnvy(allocation, utilities, q[1], q[2]))]
        appended == SelectSeq(LoopPairs, LAMBDA q :
                        q[1] # q[2] /\ RawEnvy(allocation, utilities, q[1], q[2]) > 0)
        max_envy == SetMax({envy_matrix[q] : q \in Agents \X Agents})
    IN [envy_matrix |-> envy_matrix,
        max_envy |-> max_envy,
        is_envy_free |-> max_envy <= tolerance,
        envious_pairs |->
            SortDescending([m \in 1 .. Len(appended) |->
                <<appended[m][1], appended[m][2],
                  RawEnvy(allocation, utilities, appended[m][1], appended[m][2])>>])]

(* _analyze_envy without the final sort: the list is left in loop order *)
AnalyzeEnvyUnsorted(allocation, utilities, tolerance) ==
    LET envy_matrix == [q \in Agents \X Agents |->
                          IF q[1] = q[2] THEN 0
                          ELSE Max2(0, RawEnvy(allocation, utilities, q[1], q[2]))]
        appended == SelectSeq(LoopPairs, LAMBDA q :
                        q[1] # q[2] /\ RawEnvy(allocation, utilities, q[1], q[2]) > tolerance)
        max_envy == SetMax({envy_matrix[q] : q \in Agents \X Agents})
    IN [envy_matrix |-> envy_matrix,
        max_envy |-> max_envy,
        is_envy_free |-> max_envy <= tolerance,
        envious_pairs |->
            [m \in 1 .. Len(appended) |->
                <<appended[m][1], appended[m][2],
                  RawEnvy(allocation, utilities, appended[m][1], appended[m][2])>>]]

(* _analyze_envy *)
AnalyzeEnvy(allocation, utilities, tolerance) ==
    LET envy_matrix == [q \in Agents \X Agents |->
                          IF q[1] = q[2] THEN 0
                          ELSE Max2(0, RawEnvy(allocation, utilities, q[1], q[2]))]
        appended == SelectSeq(LoopPairs, LAMBDA q :
                        q[1] # q[2] /\ RawEnvy(allocation, utilities, q[1], q[2]) > tolerance)
        max_envy == SetMax({envy_matrix[q] : q \in Agents \X Agents})
    IN [envy_matrix |-> envy_matrix,
        max_envy |-> max_envy,
        is_envy_free |-> max_envy <= tolerance,
        envious_pairs |->
            SortDescending([m \in 1 .. Len(appended) |->
                <<appended[m][1], appended[m][2],
                  RawEnvy(allocation, utilities, appended[m][1], appended[m][2])>>])]

(* np.allclose(utilities[i, :], utilities[k, :], atol=tolerance) *)
RowsAllClose(utilities, i, k, tolerance) ==
    \A j \in Goods : AllCloseAtol(utilities[<<i, j>>] * ONE, utilities[<<k, j>>] * ONE, tolerance)

(* _check_symmetric_instance *)
CheckSymmetricInstance(utilities, entitlements, tolerance) ==
    /\ \A i \in Agents \ {0} : RowsAllClose(utilities, i, 0, tolerance)
    /\ \A i \in Agents : AllCloseAtol(entitlements[i] * ONE, entitlements[0] * ONE, tolerance)

(* _check_symmetric_allocation *)
CheckSymmetricAllocation(realized_utilities, utilities, entitlements, tolerance) ==
    \A i \in Agents : \A k \in Agents :
        (i < k /\ RowsAllClose(utilities, i, k, tolerance)
               /\ Abs(entitlements[i] - entitlements[k]) * ONE <= tolerance)
        => Abs(realized_utilities[i] - realized_utilities[k]) <= tolerance

(* _compute_overall_fairness_score *)
ComputeOverallFairnessScore(is_pareto_efficient, is_envy_free, is_proportional, max_envy) ==
    IF is_pareto_efficient /\ is_envy_free /\ is_proportional
        THEN "Excellent (Pareto + EF + Proportional)"
    ELSE IF is_pareto_efficient /\ is_envy_free THEN "Very Good (Pareto + EF)"
    ELSE IF is_pareto_efficient /\ max_envy < ONE \div 10 THEN "Good (Pareto + Low Envy)"
    ELSE IF is_pareto_efficient THEN "Fair (Pareto Efficient)"
    ELSE IF is_envy_free THEN "Fair (Envy-Free)"
    ELSE "Limited (Some fairness issues)"

(* the shares with weights that are not normalized *)
ProportionalSharesUnnormalized(entitlements, total_utility) ==
    [numerator |-> [i \in Agents |-> entitlements[i] * total_utility],
     denominator |-> 1]

(* (entitlements / entitlements.sum()) * total_utility, kept as the exact   *)
(* fractions numerator[i] / denominator                                     *)
ProportionalShares(entitlements, total_utility) ==
    [numerator |-> [i \in Agents |-> entitlements[i] * total_utility],
     denominator |-> SumOver(Agents, entitlements)]

(* analyze_fairness.  proportional_shares and proportionality_gaps are the  *)
(* numerators of fractions over share_denominator; nash_welfare and the     *)
(* Gini coefficient of fairness_summary are not carried.                    *)
FairnessReport(allocation, utilities, entitlements, tolerance) ==
    LET realized_utilities == RealizedUtilities(allocation, utilities)
        total_utility == SumOver(Agents, realized_utilities)
        pareto == CheckParetoEfficiencyHeuristic(allocation, utilities, tolerance)
        envy == AnalyzeEnvy(allocation, utilities, tolerance)
        shares == ProportionalShares(entitlements, total_utility)
        gaps == [i \in Agents |->
                    realized_utilities[i] * shares.denominator - shares.numerator[i]]
        is_proportional == \A i \in Agents : gaps[i] >= -tolerance * shares.denominator
    IN [kind |-> "FairnessReport",
        utilities |-> realized_utilities,
        total_utility |-> total_utility,
        min_utility |-> SetMin({realized_utilities[i] : i \in Agents}),
        is_pareto_efficient |-> pareto.ok,
        pareto_check_note |-> pareto.note,
        envy_matrix |-> envy.envy_matrix,
        max_envy |-> envy.max_envy,
        is_envy_free |-> envy.is_envy_free,
        envious_pairs |-> envy.envious_pairs,
        proportional_shares |-> shares.numerator,
        proportionality_gaps |-> gaps,
        share_denominator |-> shares.denominator,
        is_proportional |-> is_proportional,
        is_symmetric_instance |-> CheckSymmetricInstance(utilities, entitlements, tolerance),
        is_symmetric_allocation |->
            CheckSymmetricAllocation(realized_utilities, utilities, entitlements, tolerance),
        overall_fairness_score |->
            ComputeOverallFairnessScore(pareto.ok, envy.is_envy_free, is_proportional,
                                        envy.max_envy),
        num_envious_pairs |-> Len(envy.envious_pairs),
        max_proportionality_gap |-> SetMin({gaps[i] : i \in Agents})]

(* the differences without the clamp at zero *)
EnvyMatrixSigned(allocation, utilities) ==
    [q \in Agents \X Agents |->
        IF q[1] = q[2] THEN 0
        ELSE UtilityForBundle(allocation, utilities, q[1], q[2])
               - RealizedUtilities(allocation, utilities)[q[1]]]

(* compute_envy_matrix *)
EnvyMatrix(allocation, utilities) ==
    [q \in Agents \X Agents |->
        IF q[1] = q[2] THEN 0
        ELSE Max2(0, UtilityForBundle(allocation, utilities, q[1], q[2])
                       - RealizedUtilities(allocation, utilities)[q[1]])]

(* reduced_bundle = bundle_k.copy(); reduced_bundle[j] = 0 *)
UtilityForReduced(allocation, utilities, i, k, j) ==
    SumOver(Goods \ {j}, [g \in Goods |-> utilities[<<i, g>>] * allocation[<<k, g>>]])

(* envy-freeness alone: no good is removed *)
Ef1NoRemoval(allocation, utilities, tolerance) ==
    \A i \in Agents : \A k \in Agents :
        i # k => RawEnvy(allocation, utilities, i, k) <= tolerance

(* check_ef1 *)
Ef1(allocation, utilities, tolerance) ==
    \A i \in Agents : \A k \in Agents :
        (i # k /\ RawEnvy(allocation, utilities, i, k) > tolerance)
        => \E j \in Goods :
              /\ allocation[<<k, j>>] > tolerance
              /\ UtilityForReduced(allocation, utilities, i, k, j)
                    - RowUtility(allocation, utilities, i) <= tolerance

(* the arguments of the diagnostics: any matrix is accepted as allocation, *)
(* complete columns or not; DiagNearTolerance holds fractions at and just   *)
(* above the default tolerance of 1e-6                                      *)
DiagTolerance == ONE \div 1000000

DiagNearTolerance ==
    {[p \in Pairs |-> IF p[1] = 0 THEN a ELSE b] :
        a \in {0, DiagTolerance, DiagTolerance + 1}, b \in {0, DiagTolerance + 1}}

DiagAllocations == [Pairs -> {0, ONE \div 2, ONE}] \cup DiagNearTolerance

DiagUtilities == [Pairs -> 0 .. MaxUtil]

DiagEntitlements == [Agents -> 1 .. MaxEnt]

(* a tolerance just below 1: with the relative part of np.allclose added   *)
(* (1e-5 * |b|, b >= 1) the bound on |a - b| reaches 1                      *)
WideTolerance == ONE - 40

DiagTolerances == {DiagTolerance, WideTolerance}

(* an array without agents: shape (0, 0), or (0,) for the entitlements *)
EmptyArray == << >>

(* the calls of analyze_fairness: the arrays over Agents and Goods, and the *)
(* call in which all three arrays are empty                                 *)
DiagCalls ==
    {[allocation |-> x, utilities |-> u, entitlements |-> w, tolerance |-> tolerance] :
        x \in DiagAllocations, u \in DiagUtilities, w \in DiagEntitlements,
        tolerance \in DiagTolerances}
    \cup {[allocation |-> EmptyArray, utilities |-> EmptyArray,
           entitlements |-> EmptyArray, tolerance |-> DiagTolerance]}

(* realized_utilities.min() is the first reduction without an identity: on  *)
(* an array of size zero numpy raises ValueError                            *)
AnalyzeFairness ==
    /\ Idle
    /\ \E call \in DiagCalls :
         /\ inp' = call
         /\ arrays' = PassedArrays(call)
         /\ report' = IF DOMAIN call.allocation = {}
                         THEN [kind |-> "raise", error |-> "ValueError",
                               msg |-> "zero-size array to reduction operation minimum which has no identity"]
                         ELSE FairnessReport(call.allocation, call.utilities,
                                             call.entitlements, call.tolerance)
    /\ op' = "analyze_fairness"
    /\ pc' = "done"
    /\ UNCHANGED <<solver, sol, res>>
    /\ UNCHANGED <<np_random, calls, handles, db>>

ComputeEnvyMatrix ==
    /\ Idle
    /\ \E x \in DiagAllocations, u \in DiagUtilities :
         /\ inp' = [allocation |-> x, utilities |-> u]
         /\ arrays' = [allocation |-> x, utilities |-> u]
         /\ report' = [kind |-> "envy_matrix", envy_matrix |-> EnvyMatrix(x, u)]
    /\ op' = "compute_envy_matrix"
    /\ pc' = "done"
    /\ UNCHANGED <<solver, sol, res>>
    /\ UNCHANGED <<np_random, calls, handles, db>>

CheckEf1 ==
    /\ Idle
    /\ \E x \in DiagAllocations, u \in DiagUtilities :
         /\ inp' = [allocation |-> x, utilities |-> u, tolerance |-> DiagTolerance]
         /\ arrays' = [allocation |-> x, utilities |-> u]
         /\ report' = [kind |-> "bool", value |-> Ef1(x, u, DiagTolerance)]
    /\ op' = "check_ef1"
    /\ pc' = "done"
    /\ UNCHANGED <<solver, sol, res>>
    /\ UNCHANGED <<np_random, calls, handles, db>>

(* fairness = analyze_fairness(result.allocation, utilities, entitlements) *)
(* on the result a library solver has returned                              *)
AnalyzeSolverResult ==
    /\ op \in {"solve_maxmin_allocation", "solve_nash_allocation"}
    /\ pc = "done"
    /\ res.kind = "return"
    /\ report = NoReport
    /\ report' = FairnessReport(res.result.allocation, inp.utilities.m, inp.entitlements,
                                DiagTolerance)
    /\ UNCHANGED <<op, pc, inp, solver, sol, res>>
    /\ UNCHANGED <<arrays, np_random, calls, handles, db>>

-----------------------------------------------------------------------------
(* The tests that solve an instance twice (fair_division_lib/tests).  A     *)
(* call of a solver is taken whole here: every outcome its steps can reach  *)
(* on the given arguments.                                                  *)

SolveMaxminAllocation(utilities, entitlements, epsilon) ==
    LET v == MaxMinValidateInputs(utilities, entitlements, epsilon)
    IN IF v # "ok"
         THEN {Raise("ValueError", v)}
         ELSE {Raise("RuntimeError", "Could not create OR-Tools solver")}
              \cup {MaxMinResult(utilities, entitlements, s) :
                        s \in LPSolve(MaxMinLP(utilities, entitlements, epsilon))}

SolveNashAllocation(utilities, entitlements, epsilon) ==
    LET v == NashValidateInputs(utilities, entitlements, epsilon)
    IN IF v # "ok"
         THEN {Raise("ValueError", v)}
         ELSE {NashResult(utilities, entitlements, epsilon, s) :
                  s \in NashMinimize(utilities.m, entitlements, epsilon)}

(* the default of the parameter epsilon: 1e-6 *)
DefaultEpsilon == ONE \div 1000000

TestUtilities == {[ndim |-> 2, m |-> m] : m \in [Pairs -> 0 .. MaxUtil]}

TestEntitlements == [Agents -> 1 .. MaxEnt]

(* epsilon = 1.0: a floor on t that the optimum of an instance can miss *)
ScalingEpsilons == {ONE}

(* only the row of agent 0 multiplied: utilities_scaled[0, :] *= c *)
ScaledFirstRow(utilities, c) ==
    [utilities EXCEPT !.m = [p \in Pairs |-> IF p[1] = 0 THEN c * utilities.m[p]
                                                          ELSE utilities.m[p]]]

(* utilities * c *)
Scaled(utilities, c) == [utilities EXCEPT !.m = [p \in Pairs |-> c * utilities.m[p]]]

(* what a test reads from the outcome of a call: the exception, or          *)
(* result.solver_status and result.utilities[0]                             *)
ObservedUtility(r) ==
    IF r.kind = "raise"
        THEN [kind |-> "raise", error |-> r.error]
        ELSE [kind |-> "return", solver_status |-> r.result.solver_status,
              utility |-> r.result.utilities[0]]

(* the exception, or result.solver_status and result.allocation *)
ObservedAllocation(r) ==
    IF r.kind = "raise"
        THEN [kind |-> "raise", error |-> r.error]
        ELSE [kind |-> "return", solver_status |-> r.result.solver_status,
              allocation |-> r.result.allocation]

NotCalled == [kind |-> "none"]

(* the entitlement of agent 0 increased, the others held *)
Favored(entitlements) == [entitlements EXCEPT ![0] = @ + 1]

(* test_maxmin.py, test_monotonicity_wrt_entitlements: the instance is      *)
(* solved with the base entitlements and again with the entitlement of      *)
(* agent 0 increased; an exception of the first call ends the test          *)
TestMaxMinMonotonicity ==
    /\ Idle
    /\ \E u \in TestUtilities, w \in TestEntitlements :
         LET results_equal ==
                 {ObservedUtility(r) : r \in SolveMaxminAllocation(u, w, DefaultEpsilon)}
             results_favored ==
                 {ObservedUtility(r) :
                     r \in SolveMaxminAllocation(u, Favored(w), DefaultEpsilon)}
         IN /\ inp' = [utilities |-> u, entitlements |-> w,
                       entitlements_favored |-> Favored(w), epsilon |-> DefaultEpsilon]
            /\ \E outcomes \in {<<results_equal, results_favored>>} :
                 \E result_equal \in outcomes[1] :
                   IF result_equal.kind = "raise"
                     THEN report' = [kind |-> "test", base |-> result_equal,
                                     other |-> NotCalled]
                     ELSE \E result_favored \in outcomes[2] :
                            report' = [kind |-> "test", base |-> result_equal,
                                       other |-> result_favored]
    /\ op' = "test_maxmin_monotonicity"
    /\ pc' = "done"
    /\ UNCHANGED <<solver, sol, res>>
    /\ UNCHANGED <<arrays, np_random, calls, handles, db>>

(* test_nash.py, test_monotonicity_wrt_entitlements *)
TestNashMonotonicity ==
    /\ Idle
    /\ \E u \in TestUtilities, w \in TestEntitlements :
         LET results_equal ==
                 {ObservedUtility(r) : r \in SolveNashAllocation(u, w, DefaultEpsilon)}
             results_favored ==
                 {ObservedUtility(r) :
                     r \in SolveNashAllocation(u, Favored(w), DefaultEpsilon)}
         IN /\ inp' = [utilities |-> u, entitlements |-> w,
                       entitlements_favored |-> Favored(w), epsilon |-> DefaultEpsilon]
            /\ \E outcomes \in {<<results_equal, results_favored>>} :
                 \E result_equal \in outcomes[1] :
                   IF result_equal.kind = "raise"
                     THEN report' = [kind |-> "test", base |-> result_equal,
                                     other |-> NotCalled]
                     ELSE \E result_favored \in outcomes[2] :
                            report' = [kind |-> "test", base |-> result_equal,
                                       other |-> result_favored]
    /\ op' = "test_nash_monotonicity"
    /\ pc' = "done"
    /\ UNCHANGED <<solver, sol, res>>
    /\ UNCHANGED <<arrays, np_random, calls, handles, db>>

(* test_maxmin.py, test_independence_of_scaling: result1 for utilities,     *)
(* result2 for utilities * c, here with c = 1/2 (the first instance is the  *)
(* doubled one); an exception of the first call ends the test               *)
TestIndependenceOfScaling ==
    /\ Idle
    /\ \E u \in TestUtilities, w \in TestEntitlements, e \in ScalingEpsilons :
         LET utilities == Scaled(u, 2)
             utilities_scaled == u
             results1 == {ObservedAllocation(r) : r \in SolveMaxminAllocation(utilities, w, e)}
             results2 ==
                 {ObservedAllocation(r) : r \in SolveMaxminAllocation(utilities_scaled, w, e)}
         IN /\ inp' = [utilities |-> utilities, utilities_scaled |-> utilities_scaled,
                       entitlements |-> w, epsilon |-> e]
            /\ \E outcomes \in {<<results1, results2>>} :
                 \E result1 \in outcomes[1] :
                   IF result1.kind = "raise"
                     THEN report' = [kind |-> "test", base |-> result1, other |-> NotCalled]
                     ELSE \E result2 \in outcomes[2] :
                            report' = [kind |-> "test", base |-> result1, other |-> result2]
    /\ op' = "test_independence_of_scaling"
    /\ pc' = "done"
    /\ UNCHANGED <<solver, sol, res>>
    /\ UNCHANGED <<arrays, np_random, calls, handles, db>>

-----------------------------------------------------------------------------
(* normalize_allocation (utils.py).  The division of a column by its sum is *)
(* exact here: an entry of a matrix is the fraction num / den, all entries  *)
(* of a column sharing the column's denominator.  A caller's matrix has the *)
(* denominator NormDen in every column.  A tolerance is a fraction too.     *)

NormDen == 1200

NormValues == {0 - 600, 0, 2, 3, 600, 1198, 1200}

NormAllocations ==
    {[num |-> x, den |-> [j \in Goods |-> NormDen]] : x \in [Pairs -> NormValues]}

NormTolerances == {[num |-> 1, den |-> 300], [num |-> 1, den |-> 100]}

(* allocation[:, j].sum(), as the numerator over the column's denominator *)
NormColSum(allocation, j) ==
    SumOver(Agents, [i \in Agents |-> allocation.num[<<i, j>>]])

(* abs(col_sum - 1.0) > tolerance *)
OffByMoreThan(allocation, j, tolerance) ==
    Abs(NormColSum(allocation, j) - allocation.den[j]) * tolerance.den
        > tolerance.num * allocation.den[j]

(* the mistaken test col_sum > 0 *)
SumPositive(allocation, j, tolerance) == NormColSum(allocation, j) > 0

(* col_sum > tolerance *)
SumExceeds(allocation, j, tolerance) ==
    NormColSum(allocation, j) * tolerance.den > tolerance.num * allocation.den[j]

(* one turn of the loop: column j after it *)
NormalizeColumn(allocation, j, tolerance) ==
    IF OffByMoreThan(allocation, j, tolerance)
      THEN IF SumExceeds(allocation, j, tolerance)
             THEN [num |-> [i \in Agents |-> allocation.num[<<i, j>>]],
                   den |-> NormColSum(allocation, j)]
             ELSE [num |-> [i \in Agents |-> 1], den |-> Cardinality(Agents)]
      ELSE [num |-> [i \in Agents |-> allocation.num[<<i, j>>]], den |-> allocation.den[j]]

(* the columns are independent of one another, so the loop is their map *)
NormalizeAllocation(allocation, tolerance) ==
    LET column == [j \in Goods |-> NormalizeColumn(allocation, j, tolerance)]
    IN [num |-> [p \in Pairs |-> column[p[2]].num[p[1]]],
        den |-> [j \in Goods |-> column[j].den]]

(* the array the caller passed, once the call is over, had the function    *)
(* written its columns into the argument itself                             *)
AllocationWithoutCopy(passed, written) == written

(* allocation = allocation.copy(): the loop writes into the copy, the array *)
(* the caller passed keeps its entries                                      *)
AllocationAfterCopy(passed, written) == passed

CallNormalizeAllocation ==
    /\ Idle
    /\ \E allocation \in NormAllocations, tolerance \in NormTolerances :
         LET normalized == NormalizeAllocation(allocation, tolerance)
         IN /\ inp' = [allocation |-> allocation, tolerance |-> tolerance]
            /\ report' = [kind |-> "allocation", allocation |-> normalized]
            /\ arrays' = [allocation |-> AllocationAfterCopy(allocation, normalized)]
    /\ op' = "normalize_allocation"
    /\ pc' = "done"
    /\ UNCHANGED <<solver, sol, res>>
    /\ UNCHANGED <<np_random, calls, handles, db>>

-----------------------------------------------------------------------------
(* The dispute workflow of the migrated application (api/routes/disputes.py)*)
(* One dispute exists; its owner is not one of its agents.  A handler reads *)
(* the dispute into its own session and writes at its commit.  validate,    *)
(* finalize and reject do not wait between the read and the commit's write  *)
(* of what they changed, and are one step each.  solve_dispute awaits the   *)
(* optimizer between its checks and its commit, so other requests are       *)
(* served in between: it is a call in flight with three steps.              *)

Users == {0, 1, 2}

Owner == 0

AgentUsers == {1, 2}

TheDispute == 1

DisputeIds == {1, 2}

DisputeStatus == {"setting_up", "bidding", "finalizing", "finalized", "rejected"}

ValidatedSteps == {"none", "setup", "bids", "agreement", "disagreement"}

InitialDatabase ==
    [status |-> "setting_up", validated |-> [a \in AgentUsers |-> "none"], block_id |-> "none"]

Response(handler, user, status_code) ==
    [kind |-> "response", handler |-> handler, user |-> user, status_code |-> status_code]

(* what the handlers that look the caller up among the agents answer when   *)
(* they refuse: 404 without the dispute, 403 to a user who is no agent      *)
AgentRefusal(user, dispute_id) ==
    IF dispute_id # TheDispute THEN 404
    ELSE IF user \notin AgentUsers THEN 403
    ELSE 0

ValidateDisputeSetup ==
    /\ \E user \in Users, dispute_id \in DisputeIds :
         LET refusal == AgentRefusal(user, dispute_id)
         IN IF refusal # 0
              THEN /\ report' = Response("validate_dispute_setup", user, refusal)
                   /\ db' = db
              ELSE /\ report' = Response("validate_dispute_setup", user, 200)
                   /\ db' = [db EXCEPT !.validated[user] = "setup", !.status = "bidding"]
    /\ UNCHANGED <<op, pc, inp, solver, sol, res, arrays, np_random, calls, handles>>

(* all(a.validated in [AGREEMENT, DISAGREEMENT] for a in dispute.agents) *)
AllAgreed(validated) ==
    \A a \in AgentUsers : validated[a] \in {"agreement", "disagreement"}

(* blockchain_service.anchor_data: a block id, or None *)
AnchorResults == {"block", "none"}

FinalizeDispute ==
    /\ \E user \in Users, dispute_id \in DisputeIds :
         LET refusal == AgentRefusal(user, dispute_id)
             validated == [db.validated EXCEPT ![user] = "agreement"]
         IN IF refusal # 0
              THEN /\ report' = Response("finalize_dispute", user, refusal)
                   /\ db' = db
              ELSE /\ report' = Response("finalize_dispute", user, 200)
                   /\ IF AllAgreed(validated)
                        THEN \E block_id \in AnchorResults :
                               db' = [status |-> "finalized", validated |-> validated,
                                      block_id |-> IF db.block_id = "none" THEN block_id
                                                   ELSE db.block_id]
                        ELSE db' = [db EXCEPT !.validated = validated]
    /\ UNCHANGED <<op, pc, inp, solver, sol, res, arrays, np_random, calls, handles>>

RejectDispute ==
    /\ \E user \in Users, dispute_id \in DisputeIds :
         LET refusal == AgentRefusal(user, dispute_id)
         IN IF refusal # 0
              THEN /\ report' = Response("reject_dispute", user, refusal)
                   /\ db' = db
              ELSE /\ report' = Response("reject_dispute", user, 200)
                   /\ db' = [db EXCEPT !.validated[user] = "disagreement",
                                       !.status = "rejected"]
    /\ UNCHANGED <<op, pc, inp, solver, sol, res, arrays, np_random, calls, handles>>

(* solve_dispute up to its first wait: the dispute is read, the three       *)
(* checks are made                                                          *)
SolveDisputeCheck ==
    /\ \E th \in Threads, user \in Users, dispute_id \in DisputeIds :
         /\ calls[th] = NoCall
         /\ LET request == [op |-> "solve_dispute", user |-> user, dispute_id |-> dispute_id]
                refused(status_code) == request @@ [pc |-> "done", status_code |-> status_code]
            IN calls' = [calls EXCEPT ![th] =
                   IF dispute_id # TheDispute THEN refused(404)
                   ELSE IF user # Owner THEN refused(403)
                   ELSE IF db.status # "bidding" THEN refused(400)
                   ELSE request @@ [pc |-> "optimize", status_code |-> 0]]
    /\ UNCHANGED <<op, pc, inp, solver, sol, res, report, arrays, np_random, handles, db>>

(* await optimizer.solve_dispute(...): a solution, or an exception that     *)
(* ends the request before anything is written                              *)
SolveDisputeOptimize ==
    /\ \E th \in Threads :
         /\ calls[th].op = "solve_dispute" /\ calls[th].pc = "optimize"
         /\ \E raised \in BOOLEAN :
              calls' = [calls EXCEPT ![th] =
                  IF raised THEN [@ EXCEPT !.pc = "done", !.status_code = 500]
                  ELSE [@ EXCEPT !.pc = "commit"]]
    /\ UNCHANGED <<op, pc, inp, solver, sol, res, report, arrays, np_random, handles, db>>

(* dispute.status = FINALIZING; await db.commit(): the session writes the   *)
(* one attribute it changed                                                 *)
SolveDisputeCommit ==
    /\ \E th \in Threads :
         /\ calls[th].op = "solve_dispute" /\ calls[th].pc = "commit"
         /\ db' = [db EXCEPT !.status = "finalizing"]
         /\ calls' = [calls EXCEPT ![th] =
                [@ EXCEPT !.pc = "done", !.status_code = 200]]
    /\ UNCHANGED <<op, pc, inp, solver, sol, res, report, arrays, np_random, handles>>

(* the response is sent and the request is over *)
SolveDisputeRespond ==
    /\ \E th \in Threads :
         /\ calls[th].op = "solve_dispute" /\ calls[th].pc = "done"
         /\ calls' = [calls EXCEPT ![th] = NoCall]
    /\ UNCHANGED <<op, pc, inp, solver, sol, res, report, arrays, np_random, handles, db>>

-----------------------------------------------------------------------------
(* generate_random_utilities (utils.py) called on concurrent threads.  The  *)
(* call is two statements, np.random.seed(seed) when a seed is given and    *)
(* np.random.uniform(...); each takes the generator's lock for itself, and  *)
(* another thread can run between them.                                     *)

Seeds == {1, 2}

(* seed=None, the default *)
NoSeed == 0 - 1

MaxDraws == 3

NoMatrix == [seed |-> NoSeed, draws |-> 0]

(* np.random.seed(seed): the global generator restarts from the seed *)
Seeded(seed) == [seed |-> seed, draws |-> 0]

(* np.random.uniform(low, high, (n_agents, n_goods)): the matrix is the one *)
(* the generator's state determines, named here by that state               *)
Uniform(generator) == generator

GenerateRandomUtilitiesCall ==
    /\ \E th \in Threads, seed \in Seeds \cup {NoSeed} :
         /\ calls[th] = NoCall
         /\ calls' = [calls EXCEPT ![th] =
                [op |-> "generate_random_utilities", pc |-> "seed", seed |-> seed,
                 result |-> NoMatrix]]
    /\ UNCHANGED <<op, pc, inp, solver, sol, res, report, arrays, np_random, handles, db>>

GenerateRandomUtilitiesSeed ==
    /\ \E th \in Threads :
         /\ calls[th].op = "generate_random_utilities" /\ calls[th].pc = "seed"
         /\ np_random' = IF calls[th].seed # NoSeed THEN Seeded(calls[th].seed) ELSE np_random
         /\ calls' = [calls EXCEPT ![th].pc = "sample"]
    /\ UNCHANGED <<op, pc, inp, solver, sol, res, report, arrays, handles, db>>

GenerateRandomUtilitiesSample ==
    /\ \E th \in Threads :
         /\ calls[th].op = "generate_random_utilities" /\ calls[th].pc = "sample"
         /\ np_random.draws < MaxDraws
         /\ calls' = [calls EXCEPT ![th].pc = "done", ![th].result = Uniform(np_random)]
         /\ np_random' = [np_random EXCEPT !.draws = @ + 1]
    /\ UNCHANGED <<op, pc, inp, solver, sol, res, report, arrays, handles, db>>

GenerateRandomUtilitiesReturn ==
    /\ \E th \in Threads :
         /\ calls[th].op = "generate_random_utilities" /\ calls[th].pc = "done"
         /\ calls' = [calls EXCEPT ![th] = NoCall]
    /\ UNCHANGED <<op, pc, inp, solver, sol, res, report, arrays, np_random, handles, db>>

-----------------------------------------------------------------------------
(* solve_maxmin_allocation called on concurrent threads.  What matters here *)
(* is where the engine handle of a call is referred to from, so a call is   *)
(* reduced to its control flow: whether its inputs are valid, the status    *)
(* the engine reports, and whether the call returns or raises.              *)

HandleIds == 1 .. 3

NoHandle == 0

EngineStatuses == {"OPTIMAL", "FEASIBLE", "INFEASIBLE"}

(* pywraplp.Solver.CreateSolver("GLOP"): a new object, none that exists *)
CreateSolver(existing) == CHOOSE h \in HandleIds : h \notin existing

(* AllocationResult(...) at the end of the call: the all-zero result of the *)
(* infeasible branch fails the column-sum check of __post_init__            *)
ConstructOutcome(status) ==
    IF status \in {"OPTIMAL", "FEASIBLE"}
      THEN [kind |-> "return", handles |-> {}]
      ELSE [kind |-> "raise", handles |-> {}]

SolveCall ==
    /\ \E th \in Threads, valid \in BOOLEAN :
         /\ calls[th] = NoCall
         /\ calls' = [calls EXCEPT ![th] =
                [op |-> "solve_maxmin_allocation", pc |-> "validate", valid |-> valid,
                 solver |-> NoHandle, status |-> "", outcome |-> [kind |-> "none", handles |-> {}]]]
    /\ UNCHANGED <<op, pc, inp, solver, sol, res, report, arrays, np_random, handles, db>>

SolveValidate ==
    /\ \E th \in Threads :
         /\ calls[th].op = "solve_maxmin_allocation" /\ calls[th].pc = "validate"
         /\ calls' = [calls EXCEPT ![th] =
                IF calls[th].valid
                  THEN [@ EXCEPT !.pc = "create_solver"]
                  ELSE [@ EXCEPT !.pc = "done", !.outcome = [kind |-> "raise", handles |-> {}]]]
    /\ UNCHANGED <<op, pc, inp, solver, sol, res, report, arrays, np_random, handles, db>>

SolveCreateSolver ==
    /\ \E th \in Threads, created \in BOOLEAN :
         /\ calls[th].op = "solve_maxmin_allocation" /\ calls[th].pc = "create_solver"
         /\ IF created
              THEN LET h == CreateSolver(handles)
                   IN /\ handles' = handles \cup {h}
                      /\ calls' = [calls EXCEPT ![th].solver = h, ![th].pc = "solve"]
              ELSE /\ handles' = handles
                   /\ calls' = [calls EXCEPT ![th].pc = "done",
                                             ![th].outcome = [kind |-> "raise", handles |-> {}]]
    /\ UNCHANGED <<op, pc, inp, solver, sol, res, report, arrays, np_random, db>>

SolveEngine ==
    /\ \E th \in Threads, status \in EngineStatuses :
         /\ calls[th].op = "solve_maxmin_allocation" /\ calls[th].pc = "solve"
         /\ calls' = [calls EXCEPT ![th].status = status, ![th].pc = "extract"]
    /\ UNCHANGED <<op, pc, inp, solver, sol, res, report, arrays, np_random, handles, db>>

(* the result is constructed and the call exits.  On a return the frame     *)
(* ends and its handle with it; on a raise the frame is kept                *)
SolveExtract ==
    /\ \E th \in Threads :
         /\ calls[th].op = "solve_maxmin_allocation" /\ calls[th].pc = "extract"
         /\ LET outcome == ConstructOutcome(calls[th].status)
            IN IF FrameKept(outcome)
                 THEN /\ calls' = [calls EXCEPT ![th].pc = "done", ![th].outcome = outcome]
                      /\ handles' = handles
                 ELSE /\ calls' = [calls EXCEPT ![th].pc = "done", ![th].outcome = outcome,
                                                ![th].solver = NoHandle]
                      /\ handles' = handles \ {calls[th].solver}
    /\ UNCHANGED <<op, pc, inp, solver, sol, res, report, arrays, np_random, db>>

(* the caller has taken the result, or has handled the exception and let it *)
(* go, and with it the frame it kept                                        *)
SolveFinish ==
    /\ \E th \in Threads :
         /\ calls[th].op = "solve_maxmin_allocation" /\ calls[th].pc = "done"
         /\ calls' = [calls EXCEPT ![th] = NoCall]
         /\ handles' = handles \ {calls[th].solver}
    /\ UNCHANGED <<op, pc, inp, solver, sol, res, report, arrays, np_random, db>>

-----------------------------------------------------------------------------
(* The caller takes the result (or the exception) and the call is over *)

Finish ==
    /\ pc = "done"
    /\ op' = "none"
    /\ pc' = "idle"
    /\ inp' = NoInp
    /\ solver' = NoSolver
    /\ sol' = NoSol
    /\ res' = NoRes
    /\ report' = NoReport
    /\ arrays' = NoArrays
    /\ UNCHANGED <<np_random, calls, handles, db>>

-----------------------------------------------------------------------------
(* Specification of the library *)

Init ==
    /\ op = "none"
    /\ pc = "idle"
    /\ inp = NoInp
    /\ solver = NoSolver
    /\ sol = NoSol
    /\ res = NoRes
    /\ report = NoReport
    /\ arrays = NoArrays
    /\ np_random = InitialRandomState
    /\ calls = NoCalls
    /\ handles = NoHandles
    /\ db = InitialDatabase

Next ==
    \/ ConstructResult
    \/ CallMaxMin
    \/ MaxMinValidate
    \/ MaxMinCreateSolver
    \/ MaxMinSolve
    \/ MaxMinExtract
    \/ CallNash
    \/ NashValidate
    \/ NashSolve
    \/ NashExtract
    \/ AnalyzeSolverResult
    \/ Finish

Spec == Init /\ [][Next]_vars

(* Specification of the platform solvers *)

NextPlatform ==
    \/ PlatformMaxMinSolve
    \/ PlatformNashSolve
    \/ Finish

SpecPlatform == Init /\ [][NextPlatform]_vars

(* Specification of the migrated application's OptimizationService *)

NextMigrated ==
    \/ LoadDisputeData
    \/ SolveBids
    \/ SolveRatings
    \/ Finish

SpecMigrated == Init /\ [][NextMigrated]_vars

(* Specification of the diagnostics *)

NextDiagnostics ==
    \/ AnalyzeFairness
    \/ ComputeEnvyMatrix
    \/ CheckEf1
    \/ Finish

SpecDiagnostics == Init /\ [][NextDiagnostics]_vars

(* Specification of the tests that solve twice *)

NextTests ==
    \/ TestMaxMinMonotonicity
    \/ TestNashMonotonicity
    \/ TestIndependenceOfScaling
    \/ Finish

SpecTests == Init /\ [][NextTests]_vars

(* Specification of normalize_allocation *)

NextUtils ==
    \/ CallNormalizeAllocation
    \/ Finish

SpecUtils == Init /\ [][NextUtils]_vars

(* Specification of the dispute workflow *)

NextWorkflow ==
    \/ ValidateDisputeSetup
    \/ FinalizeDispute
    \/ RejectDispute
    \/ SolveDisputeCheck
    \/ SolveDisputeOptimize
    \/ SolveDisputeCommit
    \/ SolveDisputeRespond

SpecWorkflow == Init /\ [][NextWorkflow]_vars

(* Specification of the functions that are to be pure: the diagnostics,    *)
(* normalize_allocation and the two library solvers                         *)

NextFrame ==
    \/ AnalyzeFairness
    \/ ComputeEnvyMatrix
    \/ CheckEf1
    \/ CallNormalizeAllocation
    \/ CallMaxMin
    \/ MaxMinValidate
    \/ MaxMinCreateSolver
    \/ MaxMinSolve
    \/ MaxMinExtract
    \/ CallNash
    \/ NashValidate
    \/ NashSolve
    \/ NashExtract
    \/ Finish

SpecFrame == Init /\ [][NextFrame]_vars

(* Specification of generate_random_utilities on concurrent threads *)

NextRandom ==
    \/ GenerateRandomUtilitiesCall
    \/ GenerateRandomUtilitiesSeed
    \/ GenerateRandomUtilitiesSample
    \/ GenerateRandomUtilitiesReturn

SpecRandom == Init /\ [][NextRandom]_vars

(* Specification of solve_maxmin_allocation on concurrent threads *)

NextConcurrent ==
    \/ SolveCall
    \/ SolveValidate
    \/ SolveCreateSolver
    \/ SolveEngine
    \/ SolveExtract
    \/ SolveFinish

SpecConcurrent == Init /\ [][NextConcurrent]_vars

-----------------------------------------------------------------------------
(* Properties of the library *)

LibSolverOps == {"solve_maxmin_allocation", "solve_nash_allocation"}

(* 1e-6 in units, rounded down *)
Micro == ONE \div 1000000

(* C1: whenever the LP engine reports a status other than OPTIMAL or        *)
(* FEASIBLE, solve_maxmin_allocation returns an AllocationResult with       *)
(* solver_status 'infeasible', a zero allocation, zero utilities and        *)
(* metadata.error populated, and does not raise.                            *)
C1_InfeasibleIsReturned ==
    (op = "solve_maxmin_allocation" /\ pc = "done" /\ solver.calls = 1
        /\ sol.status \notin {"OPTIMAL", "FEASIBLE"})
    => /\ res.kind = "return"
       /\ res.result.solver_status = "infeasible"
       /\ res.result.allocation = ZeroMatrix
       /\ res.result.utilities = ZeroVector
       /\ res.result.metadata_error # ""

(* C2: every AllocationResult with status optimal or feasible that exists   *)
(* has all column sums within 1e-6 of 1, all entries >= -1e-9 and utilities *)
(* of shape (n_agents,): the constructor raises otherwise.                  *)
C2_ConstructorRefuses ==
    (res.kind = "return" /\ res.result.solver_status \in {"optimal", "feasible"})
    => /\ \A j \in Goods : Abs(ColSum(res.result.allocation, j) - ONE) <= Micro
       /\ \A p \in Pairs : res.result.allocation[p] >= -NegTol
       /\ res.result.utilitiesLen = Cardinality(Agents)

(* the conditions under which the claim requires INVALID_INPUT *)
InvalidInput(i) ==
    \/ i.utilities.ndim # 2
    \/ DOMAIN i.entitlements # Agents
    \/ \E p \in Pairs : i.utilities.m[p] < 0
    \/ \E a \in DOMAIN i.entitlements : i.entitlements[a] <= 0
    \/ i.epsilon <= 0

WellShaped(i) == i.utilities.ndim = 2 /\ DOMAIN i.entitlements = Agents

(* C3: for both library solvers an invalid input (utilities not 2-D,        *)
(* entitlements of the wrong shape, a negative utility, an entitlement <= 0,*)
(* epsilon <= 0) makes the call raise ValueError before any engine handle   *)
(* is created and before any engine call; the error for a negative utility  *)
(* cites "non-negative", the one for a nonpositive entitlement "strictly    *)
(* positive".                                                               *)
C3_InvalidInputRaisesBeforeEngine ==
    (op \in LibSolverOps /\ pc # "validate" /\ InvalidInput(inp))
    => /\ pc = "done"
       /\ res.kind = "raise" /\ res.error = "ValueError"
       /\ solver.created = 0 /\ solver.calls = 0 /\ ~solver.live
       /\ (WellShaped(inp) /\ (\E p \in Pairs : inp.utilities.m[p] < 0))
            => res.msg = "Utilities must be non-negative"
       /\ (WellShaped(inp) /\ (\A p \in Pairs : inp.utilities.m[p] >= 0)
             /\ (\E a \in Agents : inp.entitlements[a] <= 0))
            => res.msg = "Entitlements must be strictly positive"

(* an invalid call has raised: a nonpositive epsilon given to the max-min   *)
(* solver with otherwise valid inputs                                       *)
C3_Witness ==
    /\ op = "solve_maxmin_allocation" /\ pc = "done"
    /\ WellShaped(inp)
    /\ \A p \in Pairs : inp.utilities.m[p] >= 0
    /\ \A a \in Agents : inp.entitlements[a] > 0
    /\ inp.epsilon <= 0
    /\ res.kind = "raise" /\ res.msg = "epsilon must be positive"

PlatformSolverOps == {"MaxMinSolver.solve", "NashSolver.solve"}

(* C4: every allocation returned by a MaxMin or Nash solve that did not     *)
(* fail gives each good away completely: the fractions of every good sum to *)
(* 1 within 1e-6 in the materialized result, near-zero entries dropped.     *)
C4_GoodsFullyAllocated ==
    (op \in PlatformSolverOps /\ pc = "done" /\ res.kind = "return" /\ sol.success)
    => \A j \in Goods : Abs(ColSum(res.result.allocation, j) - ONE) <= Micro

MigratedSolverOps == {"_solve_bids", "_solve_ratings"}

(* C5: for every solve that returns a solution, a pair that the dispute's   *)
(* restrictions forbid (a RestrictedAssignment row with share 0) receives   *)
(* at most 1e-6 in the returned allocation, under bids and under ratings.   *)
C5_RestrictedPairsGetNothing ==
    (op \in MigratedSolverOps /\ pc = "done" /\ res.kind = "return"
        /\ res.result.solver_status = "OPTIMAL")
    => \A p \in Pairs : inp.restricted[p] = 0 => res.result.allocation[p] <= Micro

(* a point within tolerance of the feasible set of the Nash programme *)
NashWithinTolerance(U, epsilon, x) ==
    /\ \A j \in Goods : Abs(ColSum(x, j) - ONE) <= Micro
    /\ \A p \in Pairs : -NegTol <= x[p] /\ x[p] <= ONE + Micro
    /\ \A i \in Agents : RowUtility(x, U, i) >= epsilon

(* C6: solve_nash_allocation has exactly three outcomes: engine success     *)
(* gives status 'optimal'; engine failure with a point within tolerance of  *)
(* feasibility gives status 'feasible'; engine failure with any other point *)
(* raises SOLVER_FAILED with the engine's message and returns nothing       *)
(* labelled 'feasible'.                                                     *)
C6_NashThreeOutcomes ==
    (op = "solve_nash_allocation" /\ pc = "done" /\ solver.calls = 1)
    => IF sol.success
         THEN res.kind = "return" /\ res.result.solver_status = "optimal"
       ELSE IF NashWithinTolerance(inp.utilities.m, inp.epsilon, Materialize(sol.k))
         THEN res.kind = "return" /\ res.result.solver_status = "feasible"
       ELSE res.kind = "raise" /\ res.error = "SOLVER_FAILED" /\ res.msg = sol.message

(* C7: when some agent values every good at 0, a MaxMin solve surfaces the  *)
(* instance as infeasible; it never returns an allocation of a successful   *)
(* solve with an objective of epsilon or 0.                                 *)
C7_ZeroRowIsInfeasible ==
    (op = "MaxMinSolver.solve" /\ pc = "done"
        /\ \E a \in Agents : \A j \in Goods : inp.utilities[<<a, j>>] = 0)
    => ~(res.kind = "return" /\ sol.success)

(* C8: for every MaxMin result of a successful solve, objective_value is    *)
(* the minimum over the agents of U_i / w_i computed from the returned      *)
(* allocation, w_i being the agent's own entitlement.                       *)
C8_ObjectiveIsMinNormalized ==
    (op = "MaxMinSolver.solve" /\ pc = "done" /\ res.kind = "return" /\ sol.success)
    => Abs(res.result.objective_value
             - SetMin({RowUtility(res.result.allocation, inp.utilities, a)
                          \div inp.entitlements[a] : a \in Agents})) <= Micro

(* 1e-4 in units *)
EqualTol == ONE \div 10000

MaxMinOptimal ==
    /\ op = "solve_maxmin_allocation" /\ pc = "done"
    /\ res.kind = "return" /\ res.result.solver_status = "optimal"

C10_ReportedUtilityIsRealized ==
    (op = "_solve_bids" /\ pc = "done" /\ res.kind = "return"
        /\ res.result.solver_status = "OPTIMAL")
    => \A a \in Agents :
         Abs(res.result.utilities[a] - RowUtility(sol.k, inp.bids, a)) <= NegTol

-----------------------------------------------------------------------------
(* Properties of the diagnostics *)

(* agent i's value for what agent k holds, from the inputs of the call *)
ValueOfBundle(i, k) ==
    SumOver(Goods, [j \in Goods |-> inp.utilities[<<i, j>>] * inp.allocation[<<k, j>>]])

(* max(0, sum_j U[i,j]*x[k,j] - U_i) *)
ExpectedEnvy(i, k) == Max2(0, ValueOfBundle(i, k) - ValueOfBundle(i, i))

EnvyOps == {"compute_envy_matrix", "analyze_fairness"}

EnviousPairsOfCall ==
    {q \in Agents \X Agents :
        q[1] # q[2] /\ ValueOfBundle(q[1], q[2]) - ValueOfBundle(q[1], q[1]) > inp.tolerance}

Analyzed == op = "analyze_fairness" /\ pc = "done" /\ report.kind = "FairnessReport"

(* C17: in every FairnessReport is_envy_free is true exactly when           *)
(* max_envy <= tolerance, which is exactly when envious_pairs is empty;     *)
(* envious_pairs holds one triple for each ordered pair (i,k), i # k, whose *)
(* envy exceeds tolerance and no other, and num_envious_pairs is that count.*)
C17_EnvyFreeFlag ==
    Analyzed
    => /\ report.is_envy_free <=> (report.max_envy <= inp.tolerance)
       /\ report.is_envy_free <=> (report.envious_pairs = <<>>)
       /\ {<<t[1], t[2]>> : t \in {report.envious_pairs[m] : m \in DOMAIN report.envious_pairs}}
            = EnviousPairsOfCall
       /\ Len(report.envious_pairs) = Cardinality(EnviousPairsOfCall)
       /\ \A m \in DOMAIN report.envious_pairs :
            report.envious_pairs[m][3]
              = ValueOfBundle(report.envious_pairs[m][1], report.envious_pairs[m][2])
                  - ValueOfBundle(report.envious_pairs[m][1], report.envious_pairs[m][1])
       /\ report.num_envious_pairs = Cardinality(EnviousPairsOfCall)

(* a report with an envy of exactly the tolerance: positive, and envy-free  *)
C17_Witness ==
    /\ Analyzed
    /\ report.max_envy = inp.tolerance
    /\ report.is_envy_free
    /\ report.envious_pairs = <<>>

(* C18: envious_pairs is ordered by non-increasing envy, so whenever the    *)
(* allocation is not envy-free its first triple (i,k,a) has                 *)
(* a = max_envy = envy_matrix[i,k]; an agent that holds nothing while the   *)
(* other holds goods it values is the i of the first triple when its envy   *)
(* is the largest.                                                          *)
C18_EnviousPairsSorted ==
    Analyzed
    => /\ \A m \in DOMAIN report.envious_pairs : \A n \in DOMAIN report.envious_pairs :
            m < n => report.envious_pairs[m][3] >= report.envious_pairs[n][3]
       /\ ~report.is_envy_free =>
            /\ report.envious_pairs # <<>>
            /\ report.envious_pairs[1][3] = report.max_envy
            /\ report.envious_pairs[1][3]
                 = report.envy_matrix[<<report.envious_pairs[1][1], report.envious_pairs[1][2]>>]
       /\ \A i \in Agents :
            ((\A j \in Goods : inp.allocation[<<i, j>>] = 0)
               /\ \A k \in Agents \ {i} :
                     ExpectedEnvy(i, k) > inp.tolerance /\ ExpectedEnvy(i, k) > ExpectedEnvy(k, i))
            => report.envious_pairs[1][1] = i

(* both agents envy, the one later in loop order more: the sort has moved   *)
(* its triple to the front                                                  *)
C18_Witness ==
    /\ Analyzed
    /\ Len(report.envious_pairs) = 2
    /\ report.envious_pairs[1][1] = 1
    /\ report.envious_pairs[1][3] > report.envious_pairs[2][3]

(* the sum of the entitlements of the call *)
SumOfEntitlements == SumOver(Agents, inp.entitlements)

ValueWithout(i, k, j) ==
    SumOver(Goods \ {j}, [g \in Goods |-> inp.utilities[<<i, g>>] * inp.allocation[<<k, g>>]])

-----------------------------------------------------------------------------
(* Properties of the results of the library solvers *)

(* all rows of U identical and all entitlements equal *)
SymmetricCall ==
    /\ \A i \in Agents : \A j \in Goods : inp.utilities.m[<<i, j>>] = inp.utilities.m[<<0, j>>]
    /\ \A i \in Agents : inp.entitlements[i] = inp.entitlements[0]

(* 0.1 in units *)
NashSymmetryTol == ONE \div 10

(* the utilities of a returned result are equal across the agents *)
EqualUtilities ==
    \A i \in Agents : \A k \in Agents :
        Abs(res.result.utilities[i] - res.result.utilities[k])
          <= IF op = "solve_maxmin_allocation" THEN EqualTol ELSE NashSymmetryTol

SymmetricReport ==
    (op = "solve_maxmin_allocation" /\ report # NoReport)
    => report.is_symmetric_instance /\ report.is_symmetric_allocation

(* C11 as stated: on an instance with identical rows and equal entitlements *)
(* every result returned by either solver gives all agents equal utility    *)
(* (1e-4 for MaxMin, 0.1 for Nash), and analyze_fairness reports            *)
(* is_symmetric_instance and is_symmetric_allocation for MaxMin.            *)
C11_SymmetryOfEveryResult ==
    (op \in LibSolverOps /\ pc = "done" /\ res.kind = "return" /\ WellShaped(inp)
        /\ SymmetricCall)
    => EqualUtilities /\ SymmetricReport

(* C11, amended: on an instance with identical rows and equal entitlements  *)
(* every result with status optimal gives all agents equal utility (1e-4    *)
(* for MaxMin, 0.1 for Nash), and analyze_fairness reports both symmetry    *)
(* flags for MaxMin; a result with status feasible need not.                *)
C11_SymmetryOfOptimalResults ==
    (op \in LibSolverOps /\ pc = "done" /\ res.kind = "return" /\ WellShaped(inp)
        /\ SymmetricCall /\ res.result.solver_status = "optimal")
    => EqualUtilities /\ SymmetricReport

(* an optimal max-min result on a symmetric instance, analyzed *)
C11_Witness ==
    /\ op = "solve_maxmin_allocation" /\ pc = "done" /\ res.kind = "return"
    /\ SymmetricCall
    /\ res.result.solver_status = "optimal"
    /\ res.result.utilities[0] > 0
    /\ report # NoReport /\ report.is_symmetric_instance /\ report.is_symmetric_allocation

(* C12: for every instance on which a solver returns status optimal,        *)
(* analyze_fairness on the returned allocation reports                      *)
(* is_pareto_efficient = true.                                              *)
C12_OptimalIsParetoEfficient ==
    (op \in LibSolverOps /\ pc = "done" /\ res.kind = "return"
        /\ res.result.solver_status = "optimal" /\ report # NoReport)
    => report.is_pareto_efficient

(* C15: for every Nash result with status optimal or feasible,              *)
(* objective_value is the weighted sum of the logarithms of the utilities   *)
(* reported in the same result: the argument of each logarithm is the       *)
(* reported U_i, none being below the epsilon of the clamp.                 *)
C15_NashObjectiveOfReportedUtilities ==
    (op = "solve_nash_allocation" /\ pc = "done" /\ res.kind = "return"
        /\ res.result.solver_status \in {"optimal", "feasible"})
    => \A i \in Agents :
          /\ res.result.utilities[i] >= inp.epsilon
          /\ res.result.objective_value[i] = res.result.utilities[i]

-----------------------------------------------------------------------------
(* Properties of the tests that solve twice *)

BothReturned ==
    /\ pc = "done" /\ report.kind = "test"
    /\ report.base.kind = "return" /\ report.other.kind = "return"

BothOptimal ==
    /\ BothReturned
    /\ report.base.solver_status = "optimal" /\ report.other.solver_status = "optimal"

MonotonicityTests == {"test_maxmin_monotonicity", "test_nash_monotonicity"}

MonotonicityTol == ONE \div 1000

(* utility is at least entitlement * t*, t* the optimum of the programme *)
AtLeastGuaranteedLevel(lp, entitlement, utility) ==
    \E c \in DualCandidates(lp) :
        utility * c[2] * LPWeightProduct(lp) >= entitlement * DualN(lp, c) * ONE

ScalingTol == ONE \div 10000

ScalingDone == op = "test_independence_of_scaling" /\ BothReturned

-----------------------------------------------------------------------------
(* Further properties of the diagnostics *)

ColumnsComplete(allocation, tolerance) ==
    \A j \in Goods : AllCloseAtol(ColSum(allocation, j), ONE, tolerance)

(* the note names a good j and agents i # k: i holds part of j and values   *)
(* it at no more than the tolerance, k values j and holds less than all     *)
NoteExhibitsWitness(note, allocation, utilities, tolerance) ==
    /\ Len(note) = 4
    /\ LET j == note[2]
           i == note[3]
           k == note[4]
       IN /\ j \in Goods /\ i \in Agents /\ k \in Agents /\ i # k
          /\ allocation[<<i, j>>] > 0
          /\ utilities[<<i, j>>] * ONE <= tolerance
          /\ utilities[<<k, j>>] > 0
          /\ allocation[<<k, j>>] < ONE

RowsWithinTolerance(i, k) ==
    \A j \in Goods :
        Abs(inp.utilities[<<i, j>>] - inp.utilities[<<k, j>>]) * ONE <= inp.tolerance

EntitlementsWithinTolerance(i, k) ==
    Abs(inp.entitlements[i] - inp.entitlements[k]) * ONE <= inp.tolerance

(* C22: is_symmetric_instance is true exactly when every utility row equals *)
(* every other row entrywise within the absolute tolerance and all          *)
(* entitlements are equal; is_symmetric_allocation is true exactly when     *)
(* every pair (i,k) with such rows and entitlements has                     *)
(* |U_i - U_k| <= tolerance; no pair whose rows differ by more than the     *)
(* tolerance in some entry is treated as symmetric.                         *)
C22_SymmetryWithinAbsoluteTolerance ==
    Analyzed
    => /\ report.is_symmetric_instance
            <=> \A i \in Agents : \A k \in Agents :
                   RowsWithinTolerance(i, k) /\ EntitlementsWithinTolerance(i, k)
       /\ report.is_symmetric_allocation
            <=> \A i \in Agents : \A k \in Agents :
                   (RowsWithinTolerance(i, k) /\ EntitlementsWithinTolerance(i, k))
                   => Abs(ValueOfBundle(i, i) - ValueOfBundle(k, k)) <= inp.tolerance

(* nonnegative entries, every column summing to 1, shapes matching the      *)
(* utilities and the strictly positive entitlements                         *)
WellFormedCall ==
    /\ DOMAIN inp.utilities = DOMAIN inp.allocation
    /\ \A p \in DOMAIN inp.allocation : inp.allocation[p] >= 0
    /\ \A j \in {p[2] : p \in DOMAIN inp.allocation} :
         SumOver({p[1] : p \in DOMAIN inp.allocation},
                 [i \in {p[1] : p \in DOMAIN inp.allocation} |-> inp.allocation[<<i, j>>]]) = ONE
    /\ DOMAIN inp.entitlements = {p[1] : p \in DOMAIN inp.allocation}
    /\ \A i \in DOMAIN inp.entitlements : inp.entitlements[i] > 0

(* C23: analyze_fairness never raises on a well-formed allocation: for      *)
(* every such input it returns a FairnessReport.                            *)
C23_NeverRaisesOnWellFormed ==
    (op = "analyze_fairness" /\ pc = "done" /\ WellFormedCall)
    => report.kind = "FairnessReport"

-----------------------------------------------------------------------------
(* Properties of the loader *)

Loaded == op = "_load_dispute_data" /\ pc = "done"

ZeroShareAgents == {a \in Agents : inp.shares[a] = 0}

SumOfExplicitShares ==
    SumOver(Agents, [a \in Agents |-> IF inp.shares[a] > 0 THEN inp.shares[a] ELSE 0])

(* C24: after the entitlement fill every agent's entitlement is strictly    *)
(* positive: an agent with an explicit share > 0 keeps it, an agent with    *)
(* share 0 receives (1 - sum of explicit shares) / (number of zero-share    *)
(* agents), and when a zero-share agent exists the entitlements sum to 1.   *)
C24_FilledEntitlementsPositive ==
    Loaded
    => /\ \A a \in Agents : report.entitlements[a] > 0
       /\ \A a \in Agents : inp.shares[a] > 0 => report.entitlements[a] = inp.shares[a]
       /\ \A a \in ZeroShareAgents :
            report.entitlements[a] * Cardinality(ZeroShareAgents) = ONE - SumOfExplicitShares
       /\ ZeroShareAgents # {} => SumOver(Agents, report.entitlements) = ONE

-----------------------------------------------------------------------------
(* Properties of normalize_allocation *)

Normalized == op = "normalize_allocation" /\ pc = "done"

(* the entries of column j of a and of column j of b are the same numbers *)
SameColumn(a, b, j) ==
    \A i \in Agents : a.num[<<i, j>>] * b.den[j] = b.num[<<i, j>>] * a.den[j]

(* column j of b is column j of a divided by the sum of column j of a:     *)
(* b[i, j] * sum = a[i, j]                                                  *)
DividedBySum(a, b, j) ==
    \A i \in Agents : b.num[<<i, j>>] * NormColSum(a, j) = a.num[<<i, j>>] * b.den[j]

(* every entry of column j of b is 1 / n_agents *)
UniformColumn(b, j) ==
    \A i \in Agents : b.num[<<i, j>>] * Cardinality(Agents) = b.den[j]

(* the sum of column j of a is within tolerance of 1 *)
SumNearOne(a, j, tolerance) ==
    /\ (NormColSum(a, j) - a.den[j]) * tolerance.den <= tolerance.num * a.den[j]
    /\ (a.den[j] - NormColSum(a, j)) * tolerance.den <= tolerance.num * a.den[j]

(* the sum of column j of a is at most tolerance *)
SumAtMostTolerance(a, j, tolerance) ==
    NormColSum(a, j) * tolerance.den <= tolerance.num * a.den[j]

-----------------------------------------------------------------------------
(* Properties of the functions that are to be pure *)

FrameOps ==
    {"analyze_fairness", "compute_envy_matrix", "check_ef1", "normalize_allocation",
     "solve_maxmin_allocation", "solve_nash_allocation"}

(* what the call in the state returns or raises is what the function gives  *)
(* for the call's inputs alone.  Which optimum the engine of a solver picks *)
(* is left open by the engine's contract; of a solver's result the          *)
(* utilities are those of the returned allocation under the passed matrix.  *)
ValueOfInputsAlone ==
    /\ op = "analyze_fairness" =>
          report = IF DOMAIN inp.allocation = {}
                     THEN [kind |-> "raise", error |-> "ValueError",
                           msg |-> "zero-size array to reduction operation minimum which has no identity"]
                     ELSE FairnessReport(inp.allocation, inp.utilities,
                                         inp.entitlements, inp.tolerance)
    /\ op = "compute_envy_matrix" =>
          report.envy_matrix = EnvyMatrix(inp.allocation, inp.utilities)
    /\ op = "check_ef1" =>
          report.value = Ef1(inp.allocation, inp.utilities, inp.tolerance)
    /\ op = "normalize_allocation" =>
          report.allocation = NormalizeAllocation(inp.allocation, inp.tolerance)
    /\ op \in {"solve_maxmin_allocation", "solve_nash_allocation"} =>
          (res.kind = "return" =>
              res.result.utilities = RealizedUtilities(res.result.allocation, inp.utilities.m))

-----------------------------------------------------------------------------
(* Properties of generate_random_utilities *)

(* C28: a call generate_random_utilities(n, m, seed=s) that runs            *)
(* concurrently with another returns the matrix determined by its own seed, *)
(* the first matrix of a generator seeded with s, in every interleaving of  *)
(* the seeding and sampling steps of the two calls.                         *)
C28_OwnSeedDeterminesMatrix ==
    \A th \in Threads :
        (calls[th].op = "generate_random_utilities" /\ calls[th].pc = "done"
           /\ calls[th].seed # NoSeed)
        => calls[th].result = Uniform(Seeded(calls[th].seed))

-----------------------------------------------------------------------------
(* Properties of concurrent solve calls *)

Solving(th) == calls[th].op = "solve_maxmin_allocation"

(* the handles the frames of the calls in flight refer to *)
HeldHandles ==
    {calls[th].solver : th \in {t \in Threads : Solving(t) /\ calls[t].solver # NoHandle}}

(* C26: in any interleaving of concurrent solve calls, a call that has      *)
(* created its engine handle holds a handle no other call holds, no         *)
(* outcome of a call refers to a handle, and once a call has exited, by a   *)
(* return or by a raise, the raise of the result's constructor included,    *)
(* the handle it created exists no more.                                    *)
C26_OwnHandleReleasedOnEveryExit ==
    /\ handles = HeldHandles
    /\ \A th \in Threads :
         Solving(th) =>
           /\ \A other \in Threads \ {th} :
                 (Solving(other) /\ calls[th].solver # NoHandle)
                    => calls[other].solver # calls[th].solver
           /\ calls[th].outcome.handles = {}
           /\ calls[th].pc = "done" => calls[th].solver = NoHandle

-----------------------------------------------------------------------------
(* Properties of the dispute workflow *)

(* C29: after any sequence of validate, solve, finalize and reject calls a  *)
(* dispute whose status is FINALIZED has no agent whose recorded step is    *)
(* DISAGREEMENT: finalize_dispute finalizes only when all agents have       *)
(* agreed, and a rejected dispute is not FINALIZED while the rejection      *)
(* stands.                                                                  *)
C29_FinalizedOnlyWhenAllAgreed ==
    db.status = "finalized" => \A a \in AgentUsers : db.validated[a] # "disagreement"

(* a step of the solve_dispute request of thread th *)
SolveDisputeStep(th) ==
    /\ calls'[th] # calls[th]
    /\ "solve_dispute" \in {calls[th].op, calls'[th].op}

(* C30: a step of solve_dispute leaves every agent's validated step alone   *)
(* and changes the dispute's status only from BIDDING to FINALIZING and     *)
(* only for the owner; a request that is refused (404, 403, 400) or whose   *)
(* optimizer raised (500) leaves the dispute as it is.                      *)
C30_SolveOnlyFromBiddingByOwner ==
    [][\A th \in Threads :
         SolveDisputeStep(th) =>
           /\ db'.validated = db.validated
           /\ db'.status # db.status =>
                 (db.status = "bidding" /\ db'.status = "finalizing"
                    /\ calls[th].user = Owner)
           /\ (calls'[th].op = "solve_dispute"
                 /\ calls'[th].status_code \in {400, 403, 404, 500}) => db' = db]_vars

=============================================================================
